---- MODULE Spec2Model ----
(***************************************************************************)
(* A model of hive-py's two core algorithms:                               *)
(*   - util/stitching.py: stitch and cluster_seqs (trajectory stitching),  *)
(*   - util/geo.py and imagery/query.py: the geometry transform pipeline   *)
(*     (load_features, convert_to_geojson_poly, chunk_by_area, katana).    *)
(*                                                                         *)
(* Stitching: frames lie on the equator.  A longitude is an integer number *)
(* of units of 2e-4 degrees (22.26 m of Web-Mercator x), a timestamp an    *)
(* integer number of seconds since the midnight (UTC) that starts day 0.   *)
(*                                                                         *)
(* Geometry: a coordinate pair <<x, y>> counts half metres east and north  *)
(* of a point on the equator, where a metre of Web-Mercator is a metre on  *)
(* the ground; every polygon is a rectangle with sides along the axes.     *)
(***************************************************************************)
EXTENDS Integers, Sequences, FiniteSets, TLC

VARIABLES
  entry,            \* which function the caller invoked
  pc,               \* position inside that function
  args,             \* the arguments of a library function called on its own
  stack,            \* katana: the calls not yet returned, innermost first
  frames,           \* the caller's frame records (the dicts stitch is given)
  max_dist, max_lag, max_azimuth_delta,   \* the thresholds of the call
  to_tz,            \* stitch: reference timezone (UTC offset in seconds)
  skip_stitching,   \* stitch: the one-frame sequences, one cluster each
  seq_by_day,       \* stitch: <<[day, seqs]>> in dict insertion order
  day_i,            \* stitch: index of the day whose seqs are clustered next
  all_clusters,     \* stitch: its list `clusters`
  seqs,             \* cluster_seqs: its argument
  remaining,        \* cluster_seqs: the unclustered indices
  clusters,         \* cluster_seqs: the closed clusters
  cluster,          \* cluster_seqs: the open cluster
  cur_seq,          \* cluster_seqs: index of the cluster head
  last_pos,         \* cluster_seqs: Mercator x of the head's last frame
  cluster_done,     \* cluster_seqs: the flag that closes the open cluster
  candidate_idxs,   \* cluster_seqs: the candidates of the current scan
  result,           \* what the call returned
  geojson,          \* load_features: the features read from the file
  map_match,        \* load_features: its argument map_match
  features,         \* load_features: its list `features`
  origin,           \* for each entry of features, the index in geojson of
                    \* the input feature it was made from (not in the code)
  custom_ids,       \* load_features: its list custom_ids
  min_dates,        \* load_features: its list min_dates
  converted,        \* load_features: the conversions done so far (line 724)
  requests,         \* query_latest_imagery: the requests submitted so far
  minuend_features,    \* subtract_geojson: its list minuend_features
  subtrahend_features  \* subtract_geojson: its list subtrahend_features

stitchVars == <<to_tz, skip_stitching, seq_by_day, day_i, all_clusters>>
clusterVars == <<seqs, remaining, clusters, cluster, cur_seq, last_pos,
                 cluster_done, candidate_idxs>>
paramVars == <<max_dist, max_lag, max_azimuth_delta>>
geoVars == <<geojson, map_match, features, origin, custom_ids, min_dates,
             converted, requests>>
trajectoryVars == <<frames, paramVars, stitchVars, clusterVars, result>>
subtractVars == <<minuend_features, subtrahend_features>>
vars == <<entry, pc, args, stack, trajectoryVars, geoVars, subtractVars>>

----------------------------------------------------------------------------
(* Bounds of the model *)

\* The number of sequences of an input.
MaxSeqs == 3

\* The number of features of an input file.
MaxFeatures == 2

\* The number of segments of a LineString that is buffered on its own.
MaxSegments == 3

(* Program constants *)

DEFAULT_STITCH_MAX_DISTANCE == 30
DEFAULT_STITCH_MAX_LAG == 360
DEFAULT_STITCH_MAX_ANGLE == 100

SecondsPerDay == 86400

\* util/geo.py
AREA_LIMIT == 4000000
MAX_MULTIPOLYGON_CARDINALITY == 8
DEFAULT_WIDTH == 25
MIN_SUBTRAHEND_AREA == 2500

\* imagery/query.py
MAX_MAP_MATCH_AREA == 500 * 500
MAX_AREA == 1000 * 1000 * 4

\* Coordinate units per metre: half metres, so that half of an odd width
\* is a whole number of units.
UnitsPerMetre == 2

\* The threshold chunk_by_area gives katana, 0.01 degrees, in coordinate
\* units (a degree is 111.32 km).
KatanaThreshold == 2226

\* The frames of the input carry no heading: the mark of the missing key, a
\* number that no azimuth takes.
NoHeading == 999

\* Start times of the input sequences: early in day 0, 20 s later, 5 s before
\* the midnight that ends day 0, 10 s after it.
TimeSet == {0, 20, 86395, 86410}

\* Longitudes of the first frame of an input sequence, and its frame counts.
LonSet == {0, 1}

FrameCounts == {1, 2}

Last(s) == s[Len(s)]

----------------------------------------------------------------------------
(* Library functions, on the model's coordinates *)

\* Geodesic.WGS84.Inverse(lat1, lon1, lat2, lon2).get('azi2') for two points
\* of the equator: due east is 90, due west -90, coincident points give 0.
GeodesicAzi2(lon1, lon2) ==
  IF lon2 > lon1 THEN 90 ELSE IF lon2 < lon1 THEN -90 ELSE 0

Abs(x) == IF x < 0 THEN -x ELSE x

abs_angular_delta(a, b) ==
  LET delta == Abs(a - b) IN IF delta <= 180 THEN delta ELSE 360 - delta

\* WGS_TO_MERCATOR.transform on the equator: x in metres (y is 0).
frame_mercator(frame) == (frame.lon * 2226) \div 100

\* TimezoneFinder().timezone_at for the model's strip of the equator: the
\* strip crosses one zone border, UTC west of it and UTC+1 from unit 1 on.
get_timezone(frame) == IF frame.lon >= 1 THEN 3600 ELSE 0

\* json_iso_str_to_date(s, new_tz).strftime('%Y-%m-%d'): the local day number.
LocalDay(timestamp, tz) == (timestamp + tz) \div SecondsPerDay

----------------------------------------------------------------------------
(* cluster_seqs and its helpers *)

\* (t1 - t0).seconds of a Python timedelta: the seconds field of the
\* normalised (days, seconds, microseconds), always in 0..86399.
TimedeltaSeconds(t0, t1) == (t1 - t0) % SecondsPerDay

seqs_lag(seq_a, seq_b) ==
  TimedeltaSeconds(Last(seq_a).timestamp, seq_b[1].timestamp)

frame_azi(a, b) == GeodesicAzi2(a.lon, b.lon)

seqs_azi_delta(seq_a, seq_b) ==
  LET azi_a == GeodesicAzi2(seq_a[Len(seq_a) - 1].lon, Last(seq_a).lon)
      azi_b == GeodesicAzi2(seq_b[1].lon, seq_b[2].lon)
  IN abs_angular_delta(azi_a, azi_b)

\* A finite set of integers as the ascending sequence of its elements.
SortedSeq(S) ==
  [k \in 1..Cardinality(S) |->
     CHOOSE i \in S : Cardinality({j \in S : j < i}) = k - 1]

\* Mutant of query_ball_point: the radius is ignored.
QueryWholeTree(ss, pos, r) == DOMAIN ss

\* tree.query_ball_point(pos, r, return_sorted=True) on the tree of the
\* sequences' first frames: the indices within r, sorted by index.
query_ball_point(ss, pos, r) ==
  {i \in DOMAIN ss : Abs(frame_mercator(ss[i][1]) - pos) <= r}

CandidateIdxs(ss, pos, r, rem) ==
  SortedSeq(query_ball_point(ss, pos, r) \cap rem)

\* The two tests of the for loop of cluster_seqs (lines 138 and 143).
LagExceeded(head, seq) == seqs_lag(head, seq) > max_lag

AzimuthExceeded(head, seq) == seqs_azi_delta(head, seq) > max_azimuth_delta

\* Mutant of BreakPos: a candidate that fails the lag test is passed over
\* like one that fails the bearing test.
BreakPosIgnoringLag(head, cands) ==
  LET stops == {k \in DOMAIN cands :
                  /\ ~LagExceeded(head, seqs[cands[k]])
                  /\ ~AzimuthExceeded(head, seqs[cands[k]])}
  IN IF stops = {} THEN 0 ELSE CHOOSE k \in stops : \A j \in stops : k <= j

\* The for loop of cluster_seqs over candidate_idxs: the position of the first
\* candidate at which the loop breaks (lag above max_lag, or both tests
\* passed); 0 when the loop runs to its end (every candidate `continue`d).
BreakPos(head, cands) ==
  LET stops == {k \in DOMAIN cands :
                  \/ LagExceeded(head, seqs[cands[k]])
                  \/ ~AzimuthExceeded(head, seqs[cands[k]])}
  IN IF stops = {} THEN 0 ELSE CHOOSE k \in stops : \A j \in stops : k <= j

\* `return clusters` (lines 106 and 153): stitch adds the clusters to its own
\* list and goes on to the next day (line 202); a direct caller receives them.
ClusterReturn(cs) ==
  IF entry = "stitch"
    THEN /\ all_clusters' = all_clusters \o cs
         /\ day_i' = day_i + 1
         /\ pc' = "days"
         /\ UNCHANGED <<to_tz, skip_stitching, seq_by_day, result>>
    ELSE /\ result' = cs
         /\ pc' = "done"
         /\ UNCHANGED stitchVars

\* cluster_seqs, lines 105-118: the one-sequence shortcut, or the set-up of
\* the loop.  (Python's index 0 is index 1 here.)
ClusterEnter(ss) ==
  /\ seqs' = ss
  /\ IF Len(ss) = 1
       THEN /\ clusters' = <<ss>>
            /\ ClusterReturn(<<ss>>)
            /\ UNCHANGED <<remaining, cluster, cur_seq, last_pos,
                           cluster_done, candidate_idxs>>
       ELSE /\ clusters' = <<>>
            /\ remaining' = (DOMAIN ss) \ {1}
            /\ cluster' = <<ss[1]>>
            /\ cur_seq' = 1
            /\ last_pos' = frame_mercator(Last(ss[1]))
            /\ cluster_done' = FALSE
            /\ candidate_idxs' = <<>>
            /\ pc' = "while"
            /\ UNCHANGED <<stitchVars, result>>

\* One test of `while remaining:` and the loop body down to the for loop
\* (lines 120-133); when the test fails, lines 152-153.
WhileStep ==
  /\ pc = "while"
  /\ IF remaining = {}
       THEN /\ clusters' = Append(clusters, cluster)
            /\ ClusterReturn(Append(clusters, cluster))
            /\ UNCHANGED <<seqs, remaining, cluster, cur_seq, last_pos,
                           cluster_done, candidate_idxs>>
       ELSE \E popped \in remaining :
              LET rem == IF cluster_done THEN remaining \ {popped}
                                         ELSE remaining
                  cur == IF cluster_done THEN popped ELSE cur_seq
                  pos == IF cluster_done
                           THEN frame_mercator(Last(seqs[popped]))
                           ELSE last_pos
                  cands == CandidateIdxs(seqs, pos, max_dist, rem)
              IN /\ clusters' = IF cluster_done THEN Append(clusters, cluster)
                                               ELSE clusters
                 /\ cluster' = IF cluster_done THEN <<seqs[popped]>>
                                              ELSE cluster
                 /\ remaining' = rem
                 /\ cur_seq' = cur
                 /\ last_pos' = pos
                 /\ candidate_idxs' = cands
                 /\ cluster_done' = (cands = <<>>)
                 /\ pc' = IF cands = <<>> THEN "while" ELSE "for"
                 /\ UNCHANGED <<seqs, stitchVars, result>>
  /\ UNCHANGED <<entry, args, stack, subtractVars, frames, paramVars, geoVars>>

\* The for loop over candidate_idxs (lines 135-150).
ForStep ==
  /\ pc = "for"
  /\ LET head == seqs[cur_seq]
         k == BreakPos(head, candidate_idxs)
     IN IF k = 0
          THEN UNCHANGED <<remaining, cur_seq, cluster, last_pos, cluster_done>>
          ELSE LET i == candidate_idxs[k]
               IN IF LagExceeded(head, seqs[i])
                    THEN /\ cluster_done' = TRUE
                         /\ UNCHANGED <<remaining, cur_seq, cluster, last_pos>>
                    ELSE /\ remaining' = remaining \ {i}
                         /\ cur_seq' = i
                         /\ cluster' = Append(cluster, seqs[i])
                         /\ last_pos' = frame_mercator(Last(seqs[i]))
                         /\ UNCHANGED cluster_done
  /\ pc' = "while"
  /\ UNCHANGED <<seqs, clusters, candidate_idxs>>
  /\ UNCHANGED <<entry, args, stack, subtractVars, frames, paramVars, stitchVars, result, geoVars>>

----------------------------------------------------------------------------
(* stitch *)

\* sorted(frames, key=lambda f: f.get('timestamp')): Python's sort is stable.
SortByTimestamp(fs) ==
  LET rank(i) == Cardinality({j \in DOMAIN fs :
                    \/ fs[j].timestamp < fs[i].timestamp
                    \/ fs[j].timestamp = fs[i].timestamp /\ j < i})
  IN [k \in DOMAIN fs |-> fs[CHOOSE i \in DOMAIN fs : rank(i) = k - 1]]

\* Mutant of SortByIdx: the sort runs in descending order.
SortByIdxDescending(fs) ==
  LET rank(i) == Cardinality({j \in DOMAIN fs :
                    \/ fs[j].idx > fs[i].idx
                    \/ fs[j].idx = fs[i].idx /\ j < i})
  IN [k \in DOMAIN fs |-> fs[CHOOSE i \in DOMAIN fs : rank(i) = k - 1]]

\* sorted(seq, key=lambda f: f.get('idx'))
SortByIdx(fs) ==
  LET rank(i) == Cardinality({j \in DOMAIN fs :
                    \/ fs[j].idx < fs[i].idx
                    \/ fs[j].idx = fs[i].idx /\ j < i})
  IN [k \in DOMAIN fs |-> fs[CHOOSE i \in DOMAIN fs : rank(i) = k - 1]]

\* sorted(seqs, key=lambda s: s[0].get('timestamp'))
SortByStart(ss) ==
  LET rank(i) == Cardinality({j \in DOMAIN ss :
                    \/ ss[j][1].timestamp < ss[i][1].timestamp
                    \/ ss[j][1].timestamp = ss[i][1].timestamp /\ j < i})
  IN [k \in DOMAIN ss |-> ss[CHOOSE i \in DOMAIN ss : rank(i) = k - 1]]

\* The elements of s at the positions in P, in the order of s.
Pick(s, P) == [k \in 1..Cardinality(P) |-> s[SortedSeq(P)[k]]]

\* by_sequence.values() (lines 168-172): the frames of each sequence id in
\* the order of sorted_frames, the ids in the order of their first frame.
BySequence(sorted_frames) ==
  LET firsts == {i \in DOMAIN sorted_frames :
                   \A j \in 1..(i - 1) :
                      sorted_frames[j].sequence # sorted_frames[i].sequence}
      keys == Pick(sorted_frames, firsts)
  IN [k \in DOMAIN keys |->
        Pick(sorted_frames, {i \in DOMAIN sorted_frames :
                               sorted_frames[i].sequence = keys[k].sequence})]

\* Mutant of MultiFrameSeqs: only sequences of more than two frames are
\* taken.
MultiFrameSeqsOverTwo(by_sequence) ==
  LET multi == Pick(by_sequence, {k \in DOMAIN by_sequence :
                                    Len(by_sequence[k]) > 2})
  IN [k \in DOMAIN multi |-> SortByIdx(multi[k])]

\* Lines 174-180: the multi-frame sequences, each sorted by idx.
MultiFrameSeqs(by_sequence) ==
  LET multi == Pick(by_sequence, {k \in DOMAIN by_sequence :
                                    Len(by_sequence[k]) > 1})
  IN [k \in DOMAIN multi |-> SortByIdx(multi[k])]

\* Mutant of SkipStitching: the one-frame sequences are dropped.
SkipNothing(by_sequence) == <<>>

\* Lines 174-180: skip_stitching, one cluster [seq] per one-frame sequence.
SkipStitching(by_sequence) ==
  LET single == Pick(by_sequence, {k \in DOMAIN by_sequence :
                                     Len(by_sequence[k]) <= 1})
  IN [k \in DOMAIN single |-> <<single[k]>>]

\* Mutant of DayOfSeq: every sequence is filed under one day.
DayOfSeqOneDay(seq, tz) == 0

\* Mutant of DayOfSeq: the day is taken from the sequence's last frame.
DayOfSeqByLastFrame(seq, tz) == LocalDay(Last(seq).timestamp, tz)

\* The key of seq_by_day a sequence is filed under (lines 188-189).
DayOfSeq(seq, tz) == LocalDay(seq[1].timestamp, tz)

\* Lines 186-197: seq_by_day, the days in the order of their first sequence,
\* each day's sequences sorted by the timestamp of their first frame.
SeqByDay(ss, tz) ==
  LET firsts == {i \in DOMAIN ss :
                   \A j \in 1..(i - 1) : DayOfSeq(ss[j], tz) # DayOfSeq(ss[i], tz)}
      heads == Pick(ss, firsts)
  IN [k \in DOMAIN heads |->
        [day |-> DayOfSeq(heads[k], tz),
         seqs |-> SortByStart(Pick(ss, {i \in DOMAIN ss :
                     DayOfSeq(ss[i], tz) = DayOfSeq(heads[k], tz)}))]]

\* The concatenation of the sequences of ss, taken half by half so that a
\* list of some hundred parts is joined at a small depth of evaluation.
RECURSIVE Concat(_)
Concat(ss) ==
  IF ss = <<>> THEN <<>>
  ELSE IF Len(ss) = 1 THEN ss[1]
  ELSE Concat(SubSeq(ss, 1, Len(ss) \div 2))
         \o Concat(SubSeq(ss, Len(ss) \div 2 + 1, Len(ss)))

\* Lines 204-205: [f for seq in cluster for f in seq] for each cluster.
\* Mutant of Flatten: the sequences of a cluster are laid out last first.
FlattenLastFirst(cs) ==
  [k \in DOMAIN cs |->
     Concat([j \in DOMAIN cs[k] |-> cs[k][Len(cs[k]) + 1 - j]])]

Flatten(cs) == [k \in DOMAIN cs |-> Concat(cs[k])]

\* The azimuth stored as the heading of frame i >= 2 of a path (line 212).
HeadingAt(path, i) == frame_azi(path[i], path[i - 1])

\* Lines 210-215 on one path: every frame from the second gets its heading,
\* and the first frame the heading of the second.
WithHeadings(path) ==
  [i \in DOMAIN path |->
     IF Len(path) < 2 THEN path[i]
     ELSE [path[i] EXCEPT !.heading =
             IF i = 1 THEN HeadingAt(path, 2) ELSE HeadingAt(path, i)]]

\* The frames are dicts shared with the caller: a heading written to a frame
\* of a path is written to the caller's record with the same identity (ref).
CallerView(fs, paths) ==
  [r \in DOMAIN fs |->
     IF \E p \in DOMAIN paths : \E i \in DOMAIN paths[p] : paths[p][i].ref = r
       THEN LET p == CHOOSE p \in DOMAIN paths :
                       \E i \in DOMAIN paths[p] : paths[p][i].ref = r
                i == CHOOSE i \in DOMAIN paths[p] : paths[p][i].ref = r
            IN paths[p][i]
       ELSE fs[r]]

\* stitch, lines 162-199: up to the loop over the days.
StitchPrepare ==
  /\ entry = "stitch" /\ pc = "start"
  /\ IF frames = <<>>
       THEN /\ result' = <<>>
            /\ pc' = "done"
            /\ UNCHANGED stitchVars
       ELSE LET sorted_frames == SortByTimestamp(frames)
                by_sequence == BySequence(sorted_frames)
                tz == get_timezone(sorted_frames[1])
            IN /\ to_tz' = tz
               /\ skip_stitching' = SkipStitching(by_sequence)
               /\ seq_by_day' = SeqByDay(MultiFrameSeqs(by_sequence), tz)
               /\ day_i' = 1
               /\ all_clusters' = <<>>
               /\ pc' = "days"
               /\ UNCHANGED result
  /\ UNCHANGED <<entry, args, stack, subtractVars, frames, paramVars, clusterVars, geoVars>>

\* Line 202: cluster_seqs(seqs, max_dist, max_lag, max_azimuth_delta) for the
\* next day.
StitchDay ==
  /\ entry = "stitch" /\ pc = "days"
  /\ day_i <= Len(seq_by_day)
  /\ ClusterEnter(seq_by_day[day_i].seqs)
  /\ UNCHANGED <<entry, args, stack, subtractVars, frames, paramVars, geoVars>>

\* Lines 204-217: flatten, set the headings, return stitched + skipped.
StitchFinish ==
  /\ entry = "stitch" /\ pc = "days"
  /\ day_i > Len(seq_by_day)
  /\ LET stitched == Flatten(all_clusters)
         skipped == Flatten(skip_stitching)
         headed == [p \in DOMAIN stitched |-> WithHeadings(stitched[p])]
     IN /\ result' = headed \o skipped
        /\ frames' = CallerView(frames, headed)
  /\ pc' = "done"
  /\ UNCHANGED <<entry, args, stack, subtractVars, paramVars, stitchVars, clusterVars, geoVars>>

\* cluster_seqs called on its own.
ClusterCall ==
  /\ entry = "cluster_seqs" /\ pc = "start"
  /\ ClusterEnter(seqs)
  /\ UNCHANGED <<entry, args, stack, subtractVars, frames, paramVars, geoVars>>

----------------------------------------------------------------------------
(* The inputs *)

\* A sequence of the input: nframes frames, the first at longitude lon and
\* time t0, each next one a unit further in direction dir and 10 s later.
Descr ==
  {d \in [nframes : FrameCounts, lon : LonSet, dir : {-1, 1}, t0 : TimeSet] :
     d.nframes = 1 => d.dir = 1}

FrameOf(d, id, i) ==
  [sequence |-> id, idx |-> i, timestamp |-> d.t0 + 10 * i,
   lon |-> d.lon + d.dir * i, heading |-> NoHeading, ref |-> 0]

\* The frames of a sequence in ascending idx.
SeqFrames(d, id) == [k \in 1..d.nframes |-> FrameOf(d, id, k - 1)]

Reverse(s) == [k \in DOMAIN s |-> s[Len(s) + 1 - k]]

\* The frame list handed to stitch: the sequences one after the other, each
\* with its frames in descending idx (no order is promised to stitch); ref
\* is the identity of the record, its position in the caller's list.
InputFrames(ds) ==
  LET all == Concat([k \in DOMAIN ds |-> Reverse(SeqFrames(ds[k], k))])
  IN [r \in DOMAIN all |-> [all[r] EXCEPT !.ref = r]]

DescrLists(lo, D) == UNION {[1..n -> D] : n \in lo..MaxSeqs}

NoClusterState ==
  /\ seqs = <<>> /\ remaining = {} /\ clusters = <<>> /\ cluster = <<>>
  /\ cur_seq = 0 /\ last_pos = 0 /\ cluster_done = FALSE
  /\ candidate_idxs = <<>>

NoStitchState ==
  /\ to_tz = 0 /\ skip_stitching = <<>> /\ seq_by_day = <<>> /\ day_i = 0
  /\ all_clusters = <<>>

NoGeoState ==
  /\ geojson = <<>> /\ map_match = FALSE /\ features = <<>> /\ origin = <<>>
  /\ custom_ids = <<>> /\ min_dates = <<>> /\ converted = <<>>
  /\ requests = <<>>

NoSubtractState == minuend_features = <<>> /\ subtrahend_features = <<>>

DefaultParams ==
  /\ max_dist = DEFAULT_STITCH_MAX_DISTANCE
  /\ max_lag = DEFAULT_STITCH_MAX_LAG
  /\ max_azimuth_delta = DEFAULT_STITCH_MAX_ANGLE

\* The lists of sequences stitch is run on: the sequences in the order of
\* their start times, those that start together in either order.
StitchInputs ==
  {ds \in DescrLists(0, Descr) :
     \A k \in 1..(Len(ds) - 1) : ds[k].t0 <= ds[k + 1].t0}

StitchInit ==
  /\ entry = "stitch" /\ pc = "start"
  /\ args = <<>>
  /\ \E ds \in StitchInputs : frames = InputFrames(ds)
  /\ DefaultParams /\ NoStitchState /\ NoClusterState /\ NoGeoState
  /\ result = <<>> /\ stack = <<>> /\ NoSubtractState

\* cluster_seqs is handed any non-empty list of multi-frame sequences.
ClusterInit ==
  /\ entry = "cluster_seqs" /\ pc = "start"
  /\ args = <<>>
  /\ frames = <<>>
  /\ \E ds \in DescrLists(1, {d \in Descr : d.nframes > 1}) :
       seqs = [k \in DOMAIN ds |-> SeqFrames(ds[k], k)]
  /\ remaining = {} /\ clusters = <<>> /\ cluster = <<>>
  /\ cur_seq = 0 /\ last_pos = 0 /\ cluster_done = FALSE
  /\ candidate_idxs = <<>>
  /\ DefaultParams /\ NoStitchState /\ NoGeoState
  /\ result = <<>> /\ stack = <<>> /\ NoSubtractState

StitchNext ==
  \/ StitchPrepare \/ StitchDay \/ WhileStep \/ ForStep \/ StitchFinish

ClusterNext == ClusterCall \/ WhileStep \/ ForStep

StitchSpec == StitchInit /\ [][StitchNext]_vars

ClusterSpec == ClusterInit /\ [][ClusterNext]_vars

\* The interpreter runs the call to its end: a step that can be taken is taken.
FairClusterSpec == ClusterSpec /\ WF_vars(ClusterNext)

----------------------------------------------------------------------------
(* Vocabulary of the properties of stitch and cluster_seqs *)

Range(s) == {s[i] : i \in DOMAIN s}

StitchReturned == entry = "stitch" /\ pc = "done"

ClusterSeqsReturned == entry = "cluster_seqs" /\ pc = "done"

\* The sequence ids of the caller's frames, and the frames of one id.
SeqIds == {f.sequence : f \in Range(frames)}

FramesOf(id) == {f \in Range(frames) : f.sequence = id}

MultiFrameIds == {id \in SeqIds : Cardinality(FramesOf(id)) > 1}

FirstFrame(id) == CHOOSE f \in FramesOf(id) : \A g \in FramesOf(id) : f.idx <= g.idx

LastFrame(id) == CHOOSE f \in FramesOf(id) : \A g \in FramesOf(id) : f.idx >= g.idx

\* The reference timezone: that of the earliest frame of the whole input.
EarliestFrame ==
  frames[CHOOSE i \in DOMAIN frames :
           \A j \in DOMAIN frames :
              \/ frames[i].timestamp < frames[j].timestamp
              \/ frames[i].timestamp = frames[j].timestamp /\ i <= j]

RefTz == get_timezone(EarliestFrame)

StartDay(id) == LocalDay(FirstFrame(id).timestamp, RefTz)

\* The paths of the result that hold a frame of sequence id.
PathsOf(id) ==
  {p \in DOMAIN result : \E i \in DOMAIN result[p] : result[p][i].sequence = id}

SamePath(a, b) == PathsOf(a) \cap PathsOf(b) # {}

\* The frames of one id as stitch orders them, by idx.
SeqOf(id) ==
  LET fs == Pick(frames, {i \in DOMAIN frames : frames[i].sequence = id})
  IN [k \in DOMAIN fs |-> CHOOSE f \in Range(fs) :
         Cardinality({g \in Range(fs) : g.idx < f.idx}) = k - 1]

\* The joinability predicate of two consecutive sequences of a cluster.
Joinable(seq_a, seq_b) ==
  /\ Abs(frame_mercator(seq_b[1]) - frame_mercator(Last(seq_a))) <= max_dist
  /\ seq_b[1].timestamp - Last(seq_a).timestamp <= max_lag
  /\ seqs_azi_delta(seq_a, seq_b) <= max_azimuth_delta

----------------------------------------------------------------------------
(* C1: cluster_seqs terminates on every list of multi-frame sequences: when
   no candidate in range of the head passes both the lag and the bearing
   test, the cluster is closed and the next one started, so every call
   reaches its return. *)
C1_ClusterSeqsTerminates == <>(pc = "done")

(* C2: in every cluster cluster_seqs returns, each two consecutive sequences
   A, B are joinable: B starts within max_dist of A's end, at most max_lag
   seconds after it, and with a bearing delta of at most max_azimuth_delta. *)
C2_ConsecutiveJoinable ==
  ClusterSeqsReturned =>
    \A c \in DOMAIN result : \A k \in 1..(Len(result[c]) - 1) :
       Joinable(result[c][k], result[c][k + 1])

(* C7: two multi-frame sequences whose first frames fall on different local
   calendar days of the reference timezone are never in the same path of
   stitch's result. *)
C7_DaysNeverShareACluster ==
  StitchReturned =>
    \A a \in MultiFrameIds : \A b \in MultiFrameIds :
       StartDay(a) # StartDay(b) => ~SamePath(a, b)

\* C7's case: stitch returned, and a sequence that starts the day after
\* another one ends lies within max_dist and max_lag of that end.
C7_Witness ==
  /\ StitchReturned
  /\ \E a \in MultiFrameIds : \E b \in MultiFrameIds :
       /\ StartDay(a) # StartDay(b)
       /\ Abs(frame_mercator(FirstFrame(b)) - frame_mercator(LastFrame(a))) <= max_dist
       /\ FirstFrame(b).timestamp - LastFrame(a).timestamp \in 0..max_lag
       /\ seqs_azi_delta(SeqOf(a), SeqOf(b)) <= max_azimuth_delta
       /\ ~SamePath(a, b)

(* C8, as stated: no path of stitch's result holds two frames whose
   timestamps fall on different local calendar days. *)
C8_NoPathSpansDays ==
  StitchReturned =>
    \A p \in DOMAIN result : \A f \in Range(result[p]) : \A g \in Range(result[p]) :
       LocalDay(f.timestamp, RefTz) = LocalDay(g.timestamp, RefTz)

(* C8, amended: no path of stitch's result holds frames of two sequences whose
   first frames fall on different local calendar days; a sequence that runs
   past midnight stays whole, so its path holds frames of both days. *)
C8_PathsKeepToOneStartDay ==
  StitchReturned =>
    \A p \in DOMAIN result : \A f \in Range(result[p]) : \A g \in Range(result[p]) :
       StartDay(f.sequence) = StartDay(g.sequence)

\* C8's case: a returned path with frames of two local days.
C8_Witness ==
  /\ StitchReturned
  /\ \E p \in DOMAIN result : \E f \in Range(result[p]) : \E g \in Range(result[p]) :
       LocalDay(f.timestamp, RefTz) # LocalDay(g.timestamp, RefTz)

(* C9: in every returned path of two or more frames, the heading of frame
   i >= 1 is the geodesic azimuth from frame i-1 to frame i (90 for a step
   due east), and frame 0 has the heading of frame 1. *)
C9_HeadingIsTravelAzimuth ==
  StitchReturned =>
    \A p \in DOMAIN result :
       Len(result[p]) >= 2 =>
         /\ \A i \in 2..Len(result[p]) :
              result[p][i].heading =
                GeodesicAzi2(result[p][i - 1].lon, result[p][i].lon)
         /\ result[p][1].heading = result[p][2].heading

(* C10: when all frames of a non-empty input share one sequence id, stitch
   returns exactly one path, holding every input frame once, in ascending
   idx. *)
C10_OneSequenceOnePath ==
  (StitchReturned /\ frames # <<>> /\ Cardinality(SeqIds) = 1) =>
    /\ Len(result) = 1
    /\ Len(result[1]) = Len(frames)
    /\ {f.ref : f \in Range(result[1])} = DOMAIN frames
    /\ \A i \in 1..(Len(result[1]) - 1) : result[1][i].idx < result[1][i + 1].idx

\* C10's case: stitch returned on two or more frames of one sequence.
C10_Witness ==
  /\ StitchReturned
  /\ Len(frames) >= 2
  /\ Cardinality(SeqIds) = 1
  /\ Len(result) = 1

\* The sequence ids of a path's frames, in the order of the path.
IdsAlong(path) == [i \in DOMAIN path |-> path[i].sequence]

\* The ids of sequence a's frames followed by those of sequence b's.
IdsOfThen(a, b) ==
  [i \in 1..(Len(SeqOf(a)) + Len(SeqOf(b))) |->
     IF i <= Len(SeqOf(a)) THEN a ELSE b]

\* The metres between the end of sequence a and the start of sequence b.
HeadToTail(a, b) ==
  Abs(frame_mercator(FirstFrame(b)) - frame_mercator(LastFrame(a)))

\* The input is the two multi-frame sequences a and b of one local day, a
\* ends before b starts, and b passes the lag and the bearing test behind a.
TwoSequencesInTurn(a, b) ==
  /\ SeqIds = {a, b} /\ a # b /\ MultiFrameIds = {a, b}
  /\ StartDay(a) = StartDay(b)
  /\ LastFrame(a).timestamp < FirstFrame(b).timestamp
  /\ FirstFrame(b).timestamp - LastFrame(a).timestamp <= max_lag
  /\ seqs_azi_delta(SeqOf(a), SeqOf(b)) <= max_azimuth_delta

(* C11: for an input of two multi-frame sequences A and B of one local day,
   A ending before B starts and B passing the lag and bearing tests: when B
   starts more than max_dist from A's end stitch returns two paths, A and B;
   when it starts less than max_dist from it, one path, A followed by B. *)
C11_DistanceDecidesTheJoin ==
  StitchReturned =>
    \A a \in SeqIds : \A b \in SeqIds :
       TwoSequencesInTurn(a, b) =>
         /\ HeadToTail(a, b) > max_dist =>
               /\ Len(result) = 2
               /\ IdsAlong(result[1]) = IdsAlong(SeqOf(a))
               /\ IdsAlong(result[2]) = IdsAlong(SeqOf(b))
         /\ HeadToTail(a, b) < max_dist =>
               /\ Len(result) = 1
               /\ IdsAlong(result[1]) = IdsOfThen(a, b)

\* C11's case: stitch returned two paths for two sequences in turn whose
\* head-to-tail distance is above max_dist.
C11_Witness ==
  /\ StitchReturned
  /\ \E a \in SeqIds : \E b \in SeqIds :
       /\ TwoSequencesInTurn(a, b)
       /\ HeadToTail(a, b) > max_dist
       /\ Len(result) = 2

\* The other half of C11's case: the two sequences came back as one path.
C11_JoinedWitness ==
  /\ StitchReturned
  /\ \E a \in SeqIds : \E b \in SeqIds :
       /\ TwoSequencesInTurn(a, b)
       /\ HeadToTail(a, b) < max_dist
       /\ Len(result) = 1

\* The sequences of the input that have exactly one frame.
OneFrameIds == SeqIds \ MultiFrameIds

(* C12: every sequence of exactly one frame comes back from stitch as its own
   path of that one frame, joined to no other sequence, and every such path
   stands in the result after every path built from multi-frame sequences. *)
C12_OneFrameSequencesApart ==
  StitchReturned =>
    /\ \A id \in OneFrameIds :
         /\ Cardinality(PathsOf(id)) = 1
         /\ \A p \in PathsOf(id) :
              /\ Len(result[p]) = 1
              /\ result[p][1].ref \in {f.ref : f \in FramesOf(id)}
    /\ \A p \in DOMAIN result : \A q \in DOMAIN result :
         (/\ result[p][1].sequence \in OneFrameIds
          /\ result[q][1].sequence \in MultiFrameIds) => q < p

\* C12's case: a one-frame sequence that starts the input, and a multi-frame
\* sequence that starts in reach of it within max_lag, both returned.
C12_Witness ==
  /\ StitchReturned
  /\ \E a \in OneFrameIds : \E b \in MultiFrameIds :
       /\ HeadToTail(a, b) <= max_dist
       /\ FirstFrame(b).timestamp - LastFrame(a).timestamp \in 0..max_lag
       /\ StartDay(a) = StartDay(b)
       /\ EarliestFrame.sequence = a
       /\ PathsOf(a) # {} /\ PathsOf(b) # {}

\* The metres from the head's last frame to the first frame of seqs[i].
DistanceFromHead(i) == Abs(frame_mercator(seqs[i][1]) - last_pos)

\* seqs[i] passes the lag and the bearing test behind the head.
PassesBothTests(i) ==
  /\ ~LagExceeded(seqs[cur_seq], seqs[i])
  /\ ~AzimuthExceeded(seqs[cur_seq], seqs[i])

\* A turn of the for loop that joins a candidate to the cluster.
JoinStep == pc = "for" /\ cur_seq' # cur_seq

(* C19: the candidates of a head are examined in order of increasing
   distance from the head, so that the candidate joined is the nearest of
   those that pass both the lag and the bearing test. *)
C19_NearestCandidateJoined ==
  [][/\ pc = "for" =>
          \A k \in 1..(Len(candidate_idxs) - 1) :
             DistanceFromHead(candidate_idxs[k])
               <= DistanceFromHead(candidate_idxs[k + 1])
     /\ JoinStep =>
          \A j \in Range(candidate_idxs) :
             PassesBothTests(j) =>
               DistanceFromHead(cur_seq') <= DistanceFromHead(j)]_vars

\* The candidate at position k of the scan fails the lag test, fails the
\* bearing test only, or passes both.
FailsLag(k) == LagExceeded(seqs[cur_seq], seqs[candidate_idxs[k]])

FailsBearingOnly(k) ==
  /\ ~FailsLag(k)
  /\ AzimuthExceeded(seqs[cur_seq], seqs[candidate_idxs[k]])

\* The scan reaches position k: every candidate before it failed the bearing
\* test only.
Examined(k) == \A j \in 1..(k - 1) : FailsBearingOnly(j)

\* The for loop runs, and the while loop opens a new cluster.
ScanStep == pc = "for" /\ pc' = "while"

CloseStep == pc = "while" /\ cluster_done /\ remaining # {} /\ pc' # pc

(* C20: in the scan of a head's candidates, a candidate that passes the lag
   test but fails the bearing test is skipped without closing the cluster
   and the next one is examined; the first candidate that fails the lag test
   closes the cluster at once: no later candidate is examined for that head,
   and the failing candidate stays unclustered for the clusters to come. *)
C20_LagClosesBearingSkips ==
  [][/\ ScanStep =>
          /\ \A k \in DOMAIN candidate_idxs :
               Examined(k) =>
                 IF FailsLag(k)
                   THEN /\ cluster_done'
                        /\ remaining' = remaining
                        /\ cluster' = cluster /\ cur_seq' = cur_seq
                   ELSE FailsBearingOnly(k) \/
                          /\ cur_seq' = candidate_idxs[k]
                          /\ cluster' = Append(cluster, seqs[candidate_idxs[k]])
                          /\ remaining' = remaining \ {candidate_idxs[k]}
                          /\ ~cluster_done'
          /\ Examined(Len(candidate_idxs) + 1) =>
               /\ ~cluster_done'
               /\ cluster' = cluster /\ remaining' = remaining
     /\ CloseStep =>
          /\ clusters' = Append(clusters, cluster)
          /\ cur_seq' \in remaining
          /\ cluster' = <<seqs[cur_seq']>>
          /\ remaining' = remaining \ {cur_seq'}]_vars

\* C20's case: the scan skipped a candidate that failed the bearing test
\* only and then met one that failed the lag test, which closed the cluster
\* and is still unclustered.
C20_Witness ==
  /\ pc = "while" /\ cluster_done
  /\ Len(candidate_idxs) >= 2
  /\ FailsBearingOnly(1)
  /\ FailsLag(2)
  /\ candidate_idxs[2] \in remaining

\* The scan met a candidate that failed the lag test ahead of one that
\* passes both tests.
C20_LagFirstWitness ==
  /\ pc = "while" /\ cluster_done
  /\ Len(candidate_idxs) >= 2
  /\ FailsLag(1)
  /\ ~FailsLag(2) /\ ~FailsBearingOnly(2)
  /\ Range(candidate_idxs) \subseteq remaining

----------------------------------------------------------------------------
(* GeoJSON values *)

\* Mutant of Raised: the exception carries no message.
RaisedBare(message) == [type |-> "Exception", message |-> ""]

\* Mutant of PyNone: the failure is passed on to the caller.
PyReraise == [type |-> "Exception", message |-> "split"]

\* Python's None, and a Python list returned where one value is expected.
PyNone == [type |-> "None"]

PyList(items) == [type |-> "list", items |-> items]

\* An exception that leaves the function.
Raised(message) == [type |-> "Exception", message |-> message]

\* The id and the min_date of the k-th feature of the input file.
IdOf(k) == [type |-> "id", of |-> k]

MinDateOf(k) == [type |-> "min_date", of |-> k]

\* The dict {} as a feature's properties: .get('id') and .get('min_date')
\* give None.
NoProperties == [id |-> PyNone, min_date |-> PyNone]

Feature(properties, geometry) ==
  [type |-> "Feature", properties |-> properties, geometry |-> geometry]

Point(coord) == [type |-> "Point", coordinates |-> coord]

LineString(coords) == [type |-> "LineString", coordinates |-> coords]

\* The coordinates of a Polygon are its rings, the exterior ring first.
Polygon(rings) == [type |-> "Polygon", coordinates |-> rings]

\* The coordinates of a MultiPolygon are the coordinates of its members.
MultiPolygon(members) == [type |-> "MultiPolygon", coordinates |-> members]

\* A geometry type the conversion has no branch for.
MultiPoint(coords) == [type |-> "MultiPoint", coordinates |-> coords]

GeometryCollection(geometries) ==
  [type |-> "GeometryCollection", geometries |-> geometries]

\* feature.get('geometry', feature)
GeomOf(feature) ==
  IF feature.type = "Feature" THEN feature.geometry ELSE feature

\* feature.get('properties', {})
PropertiesOf(feature) ==
  IF feature.type = "Feature" THEN feature.properties ELSE NoProperties

\* util/geo.py get_coords.
get_coords(feature) == GeomOf(feature).coordinates

Min(a, b) == IF a <= b THEN a ELSE b

Max(a, b) == IF a >= b THEN a ELSE b

\* shapely's box(minx, miny, maxx, maxy): the ring runs counter-clockwise
\* from (maxx, miny).
box(minx, miny, maxx, maxy) ==
  Polygon(<< << <<maxx, miny>>, <<maxx, maxy>>, <<minx, maxy>>,
                <<minx, miny>>, <<maxx, miny>> >> >>)

\* The rings of a Polygon or MultiPolygon geometry, one per member polygon
\* (the polygons of the model have no holes).
ExteriorRings(geom) ==
  IF geom.type = "Polygon"
    THEN <<geom.coordinates[1]>>
    ELSE [k \in DOMAIN geom.coordinates |-> geom.coordinates[k][1]]

\* The points of a list of rings.
PointsOf(rings) ==
  UNION {{rings[k][i] : i \in DOMAIN rings[k]} : k \in DOMAIN rings}

MinOf(S) == CHOOSE x \in S : \A o \in S : x <= o

MaxOf(S) == CHOOSE x \in S : \A o \in S : x >= o

\* (minx, miny, maxx, maxy) of a set of points.
BoundsOf(points) ==
  << MinOf({p[1] : p \in points}), MinOf({p[2] : p \in points}),
     MaxOf({p[1] : p \in points}), MaxOf({p[2] : p \in points}) >>

\* shapely's geometry.bounds.
bounds(geom) == BoundsOf(PointsOf(ExteriorRings(geom)))

\* The sum of a sequence of numbers, taken half by half.
RECURSIVE SumSeq(_)
SumSeq(s) ==
  IF s = <<>> THEN 0
  ELSE IF Len(s) = 1 THEN s[1]
  ELSE SumSeq(SubSeq(s, 1, Len(s) \div 2))
         + SumSeq(SubSeq(s, Len(s) \div 2 + 1, Len(s)))

\* Twice the signed area of a ring, in squares of the coordinate unit.
RingArea2(ring) ==
  SumSeq([i \in 1..(Len(ring) - 1) |->
            ring[i][1] * ring[i + 1][2] - ring[i + 1][1] * ring[i][2]])

\* The area package's area(geometry), in square metres: the area of the
\* rings of a Polygon or MultiPolygon, the sum over the members of a
\* GeometryCollection, 0 for a Point or a LineString.
RECURSIVE area(_)
area(geom) ==
  CASE geom.type \in {"Polygon", "MultiPolygon"} ->
         SumSeq([k \in DOMAIN ExteriorRings(geom) |->
                   Abs(RingArea2(ExteriorRings(geom)[k]))
                     \div (2 * UnitsPerMetre * UnitsPerMetre)])
    [] geom.type = "GeometryCollection" ->
         SumSeq([k \in DOMAIN geom.geometries |-> area(geom.geometries[k])])
    [] OTHER -> 0

----------------------------------------------------------------------------
(* util/geo.py *)

flat_list(fs) ==
  Concat([k \in DOMAIN fs |->
            IF fs[k].type = "list" THEN fs[k].items ELSE <<fs[k]>>])

\* The k-th slice is coords[(k-1)*c : k*c]; the results are bare geometries.
explode_multipolygon(mp) ==
  LET coords == get_coords(mp)
      n == Len(coords)
      c == MAX_MULTIPOLYGON_CARDINALITY
      m == (n + c - 1) \div c
  IN PyList([k \in 1..m |->
               MultiPolygon(SubSeq(coords, (k - 1) * c + 1, Min(k * c, n)))])

\* The bounds two boxes share.
ClipBox(b, d) ==
  <<Max(b[1], d[1]), Max(b[2], d[2]), Min(b[3], d[3]), Min(b[4], d[4])>>

HasArea(b) == b[1] < b[3] /\ b[2] < b[4]

\* The rectangles given by their rings, clipped to the box d, those with an
\* area only.
ClippedTo(rings, d) ==
  LET clipped == [k \in DOMAIN rings |->
                    ClipBox(BoundsOf(PointsOf(<<rings[k]>>)), d)]
  IN Pick(clipped, {k \in DOMAIN clipped : HasArea(clipped[k])})

\* The one Polygon or the MultiPolygon of the boxes bs; <<>> when there is
\* none.
AsGeometry(bs) ==
  IF bs = <<>> THEN <<>>
  ELSE IF Len(bs) = 1 THEN <<box(bs[1][1], bs[1][2], bs[1][3], bs[1][4])>>
  ELSE <<MultiPolygon([j \in DOMAIN bs |->
           box(bs[j][1], bs[j][2], bs[j][3], bs[j][4]).coordinates])>>

\* geometry.intersection(d) for a geometry of rectangles and a box d given
\* by its bounds, as a list: empty when nothing with an area is left.
intersection(geometry, d) == AsGeometry(ClippedTo(ExteriorRings(geometry), d))

\* The end of katana: multipart results become their member polygons.
SinglePart(pieces) ==
  Concat([k \in DOMAIN pieces |->
            IF pieces[k].type = "MultiPolygon"
              THEN [j \in DOMAIN pieces[k].coordinates |->
                      Polygon(pieces[k].coordinates[j])]
              ELSE <<pieces[k]>>])

\* The boxes a and b of katana for the bounds b0: the lower and the upper
\* half when the height is at least the width, else the left and the right
\* half.  The sides of the model's polygons halve without remainder.
KatanaBoxes(b0) ==
  IF b0[4] - b0[2] >= b0[3] - b0[1]
    THEN << <<b0[1], b0[2], b0[3], b0[2] + (b0[4] - b0[2]) \div 2>>,
            <<b0[1], b0[2] + (b0[4] - b0[2]) \div 2, b0[3], b0[4]>> >>
    ELSE << <<b0[1], b0[2], b0[1] + (b0[3] - b0[1]) \div 2, b0[4]>>,
            <<b0[1] + (b0[3] - b0[1]) \div 2, b0[2], b0[3], b0[4]>> >>

\* Mutant of KatanaFits: the shorter side is compared.
KatanaFitsShorterSide(b0, threshold) ==
  Min(b0[3] - b0[1], b0[4] - b0[2]) <= threshold

\* max(width, height) <= threshold
KatanaFits(b0, threshold) ==
  Max(b0[3] - b0[1], b0[4] - b0[2]) <= threshold

RECURSIVE katana(_, _, _)
RECURSIVE KatanaParts(_, _, _, _)

\* The loop `for d in (a, b,)` of katana over the boxes ds.
KatanaParts(geometry, ds, threshold, count) ==
  IF ds = <<>> THEN <<>>
  ELSE (IF intersection(geometry, Head(ds)) = <<>> THEN <<>>
        ELSE katana(intersection(geometry, Head(ds))[1], threshold, count + 1))
       \o KatanaParts(geometry, Tail(ds), threshold, count)

katana(geometry, threshold, count) ==
  IF KatanaFits(bounds(geometry), threshold) \/ count = 250
    THEN <<geometry>>
  ELSE IF count > 0
    THEN KatanaParts(geometry, KatanaBoxes(bounds(geometry)), threshold, count)
  ELSE SinglePart(KatanaParts(geometry, KatanaBoxes(bounds(geometry)),
                              threshold, count))

\* Geodesic.WGS84.Inverse(...).get('azi2') for a segment of the model: a
\* compass bearing, for the eight directions the inputs use.
SegmentAzimuth(p, q) ==
  LET dx == q[1] - p[1]
      dy == q[2] - p[2]
  IN CASE dx = 0 /\ dy > 0 -> 0
       [] dx > 0 /\ dy = dx -> 45
       [] dx > 0 /\ dy = 0 -> 90
       [] dx > 0 /\ dy = -dx -> 135
       [] dx = 0 /\ dy < 0 -> 180
       [] dx < 0 /\ dy = dx -> -135
       [] dx < 0 /\ dy = 0 -> -90
       [] dx < 0 /\ dy = -dx -> -45

angle_between_segments(p0, p1, p2) ==
  abs_angular_delta(SegmentAzimuth(p0, p1), SegmentAzimuth(p1, p2))

combine_polys(polys) ==
  Feature(NoProperties,
          MultiPolygon([k \in DOMAIN polys |-> get_coords(polys[k])]))

\* Mutant of CloserThan: the distance is compared with half the minimum
\* length.
CloserThanHalf(cur, prev, min_length) ==
  LET dx == cur[1] - prev[1]
      dy == cur[2] - prev[2]
  IN dx * dx + dy * dy < min_length * min_length

\* geopy.distance.distance(cur, prev).meters < min_length
CloserThan(cur, prev, min_length) ==
  LET l == min_length * UnitsPerMetre
      dx == cur[1] - prev[1]
      dy == cur[2] - prev[2]
  IN Abs(dx) < l /\ Abs(dy) < l /\ dx * dx + dy * dy < l * l

\* The loop of filter_small_segments from index i on.
RECURSIVE FilterFrom(_, _, _, _, _)
FilterFrom(coords, i, prev, new_coords, min_length) ==
  IF i > Len(coords) THEN new_coords
  ELSE IF CloserThan(coords[i], prev, min_length)
    THEN FilterFrom(coords, i + 1, prev, new_coords, min_length)
    ELSE FilterFrom(coords, i + 1, coords[i], Append(new_coords, coords[i]),
                    min_length)

filter_small_segments(linestring, min_length) ==
  LET coords == get_coords(linestring)
  IN IF Len(coords) < 2 THEN coords
     ELSE FilterFrom(coords, 2, coords[1], <<coords[1]>>, min_length)

\* width / 2, in coordinate units.
HalfWidth(width) == (width * UnitsPerMetre) \div 2

\* The points of the model carry two coordinates, so the square has no
\* properties.
point_to_square(coord, width) ==
  LET h == HalfWidth(width)
      cx == coord[1]
      cy == coord[2]
  IN Feature(NoProperties,
             Polygon(<< << <<cx - h, cy - h>>, <<cx + h, cy - h>>,
                           <<cx + h, cy + h>>, <<cx - h, cy + h>>,
                           <<cx - h, cy - h>> >> >>))

\* Mutant of ExplodeFrom: a turn of exactly the threshold splits the line.
RECURSIVE ExplodeFromStrict(_, _, _, _, _)
ExplodeFromStrict(coords, i, lines, cur_line, threshold) ==
  IF i > Len(coords) THEN Append(lines, cur_line)
  ELSE IF angle_between_segments(coords[i - 2], coords[i - 1], coords[i])
            < threshold
    THEN ExplodeFromStrict(coords, i + 1, lines, Append(cur_line, coords[i]),
                           threshold)
    ELSE ExplodeFromStrict(coords, i + 1,
                           lines \o <<cur_line, <<coords[i - 1]>>>>,
                           <<coords[i - 1], coords[i]>>, threshold)

\* The loop of explode_sharp_angles from index i on.
RECURSIVE ExplodeFrom(_, _, _, _, _)
ExplodeFrom(coords, i, lines, cur_line, threshold) ==
  IF i > Len(coords) THEN Append(lines, cur_line)
  ELSE IF angle_between_segments(coords[i - 2], coords[i - 1], coords[i])
            <= threshold
    THEN ExplodeFrom(coords, i + 1, lines, Append(cur_line, coords[i]),
                     threshold)
    ELSE ExplodeFrom(coords, i + 1,
                     lines \o <<cur_line, <<coords[i - 1]>>>>,
                     <<coords[i - 1], coords[i]>>, threshold)

explode_sharp_angles(coords, threshold) ==
  IF Len(coords) < 3 THEN <<coords>>
  ELSE ExplodeFrom(coords, 3, <<>>, <<coords[1], coords[2]>>, threshold)

geojson_point_to_poly(point, width) == point_to_square(get_coords(point), width)

\* half_width / sqrt(2) in whole coordinate units: the length of each
\* component of the normal of a diagonal segment.
DiagonalPart(half_width) == (half_width * 7071) \div 10000

\* (nx, ny) of geojson_linestring_to_poly for the segment from p0 to p1: the
\* left normal of length half_width, for a segment along an axis or a
\* diagonal.
Normal(p0, p1, half_width) ==
  LET dx == p1[1] - p0[1]
      dy == p1[2] - p0[2]
      d == DiagonalPart(half_width)
  IN CASE dy = 0 /\ dx > 0 -> <<0, half_width>>
       [] dy = 0 /\ dx < 0 -> <<0, -half_width>>
       [] dx = 0 /\ dy > 0 -> <<-half_width, 0>>
       [] dx = 0 /\ dy < 0 -> <<half_width, 0>>
       [] dx > 0 /\ dy > 0 -> <<-d, d>>
       [] dx > 0 /\ dy < 0 -> <<d, d>>
       [] dx < 0 /\ dy > 0 -> <<-d, -d>>
       [] dx < 0 /\ dy < 0 -> <<d, -d>>

\* None at a position of a list of coordinate pairs.
NoCoord == <<>>

\* list[index] = value of Python (index from 0).
SetAt(list, index, value) == [list EXCEPT ![index + 1] = value]

Plus(p, v) == <<p[1] + v[1], p[2] + v[2]>>

Minus(p, v) == <<p[1] - v[1], p[2] - v[2]>>

\* Mutant of MirrorIndex: off by one.
MirrorIndexOffByOne(n, i) == n - i

\* The index n - i - 1 of line 303.
MirrorIndex(n, i) == n - i - 1

\* The loop of lines 292-304 from i on (frame i of the code is
\* filtered_coords[i + 1] here).
RECURSIVE BufferFrom(_, _, _, _)
BufferFrom(filtered_coords, i, new_coords, half_width) ==
  IF i > Len(filtered_coords) - 1 THEN new_coords
  ELSE BufferFrom(filtered_coords, i + 1,
         SetAt(SetAt(new_coords, i,
                     Plus(filtered_coords[i + 1],
                          Normal(filtered_coords[i], filtered_coords[i + 1],
                                 half_width))),
               MirrorIndex(2 * Len(filtered_coords), i),
               Minus(filtered_coords[i + 1],
                     Normal(filtered_coords[i], filtered_coords[i + 1],
                            half_width))),
         half_width)

\* new_coords of geojson_linestring_to_poly, lines 261 and 280-304: a list of
\* n + 1 times None, filled by the assignments of the code in their order.
BufferRing(filtered_coords, half_width) ==
  LET n == 2 * Len(filtered_coords)
      nrm == Normal(filtered_coords[1], filtered_coords[2], half_width)
      ends == SetAt(SetAt([j \in 1..(n + 1) |-> NoCoord],
                          0, Plus(filtered_coords[1], nrm)),
                    n - 1, Minus(filtered_coords[1], nrm))
  IN BufferFrom(filtered_coords, 1, SetAt(ends, n, ends[1]), half_width)

RECURSIVE geojson_linestring_to_poly(_, _)
geojson_linestring_to_poly(linestring, width) ==
  LET filtered_coords == filter_small_segments(linestring, width)
      lines == explode_sharp_angles(filtered_coords, 45)
  IN IF Len(filtered_coords) < 2
       THEN point_to_square(filtered_coords[1], width)
     ELSE IF Len(lines) > 1
       THEN combine_polys([k \in DOMAIN lines |->
              geojson_linestring_to_poly(LineString(lines[k]),
                                         DEFAULT_WIDTH)])
     ELSE Feature(NoProperties,
                  Polygon(<<BufferRing(filtered_coords, HalfWidth(width))>>))

\* The argument limit is not read.
chunk_by_area(feature, limit) ==
  LET geom == GeomOf(feature)
      geoms == katana(geom, KatanaThreshold, 0)
  IN IF area(geom) < AREA_LIMIT
       THEN feature
       ELSE PyList([k \in DOMAIN geoms |-> Feature(NoProperties, geoms[k])])

\* shapely's is_simple for a line whose segments lie along the axes: no two
\* segments that are not neighbours meet, and no segment folds back on the
\* one before it.
is_simple(coords) ==
  LET n == Len(coords) - 1
      seg(i) == <<Min(coords[i][1], coords[i + 1][1]),
                  Min(coords[i][2], coords[i + 1][2]),
                  Max(coords[i][1], coords[i + 1][1]),
                  Max(coords[i][2], coords[i + 1][2])>>
      meet(a, b) == /\ a[1] <= b[3] /\ b[1] <= a[3]
                    /\ a[2] <= b[4] /\ b[2] <= a[4]
  IN /\ \A i \in 1..n : \A j \in 1..n : j > i + 1 => ~meet(seg(i), seg(j))
     /\ \A i \in 1..(n - 1) :
          angle_between_segments(coords[i], coords[i + 1], coords[i + 2])
            # 180

\* Lines 356-363 when nothing raises: the union of the buffers of the pieces
\* of a self-intersecting line, a bare geometry.  The model writes it as the
\* rectangle that encloses the buffers.
UnionOfBuffers(coords, width) ==
  LET b == bounds(Polygon(<<coords>>))
      h == HalfWidth(width)
  IN box(b[1] - h, b[2] - h, b[3] + h, b[4] + h)

\* unary_union of polygons that lie apart: the Polygon, or the MultiPolygon
\* of all their member polygons.
unary_union(polys) ==
  LET members == Concat([k \in DOMAIN polys |->
                   IF GeomOf(polys[k]).type = "Polygon"
                     THEN <<GeomOf(polys[k]).coordinates>>
                     ELSE GeomOf(polys[k]).coordinates])
  IN IF Len(members) = 1 THEN Polygon(members[1]) ELSE MultiPolygon(members)

\* split_ok tells whether the shapely calls of lines 356-363 go through; a
\* failure inside them is caught and gives None.  The recursive calls for a
\* GeometryCollection pass no max_area.
RECURSIVE convert_to_geojson_poly(_, _, _, _)
convert_to_geojson_poly(feature, width, max_area, split_ok) ==
  LET geom == GeomOf(feature)
      t == geom.type
  IN CASE t = "LineString" ->
            IF ~is_simple(geom.coordinates)
              THEN IF split_ok
                     THEN UnionOfBuffers(geom.coordinates, width)
                     ELSE PyNone
              ELSE geojson_linestring_to_poly(geom, width)
       [] t = "Point" -> geojson_point_to_poly(geom, width)
       [] t \in {"Polygon", "MultiPolygon"} -> chunk_by_area(feature, max_area)
       [] t = "GeometryCollection" ->
            LET children == [k \in DOMAIN geom.geometries |->
                  convert_to_geojson_poly(geom.geometries[k], width,
                                          AREA_LIMIT, split_ok)]
                failed == {k \in DOMAIN children :
                             children[k].type = "Exception"}
                polys == flat_list(children)
            IN IF failed # {}
                 THEN children[CHOOSE k \in failed : \A o \in failed : k <= o]
               ELSE IF \E k \in DOMAIN polys : polys[k].type = "None"
                 THEN Raised("from_geojson")
               ELSE convert_to_geojson_poly(unary_union(polys), width,
                                            AREA_LIMIT, split_ok)
       [] OTHER -> Raised("Unsupported type: " \o t)

----------------------------------------------------------------------------
(* imagery/query.py: load_features and the query loop *)

\* Lines 711-714: every MultiPolygon is exploded, the list flattened.
LoadExplode ==
  /\ entry = "query" /\ pc = "explode"
  /\ LET exploded == [i \in DOMAIN features |->
                        IF GeomOf(features[i]).type = "MultiPolygon"
                          THEN explode_multipolygon(features[i])
                          ELSE features[i]]
     IN /\ features' = flat_list(exploded)
        /\ origin' = Concat([i \in DOMAIN exploded |->
                       IF exploded[i].type = "list"
                         THEN [j \in DOMAIN exploded[i].items |-> origin[i]]
                         ELSE <<origin[i]>>])
  /\ pc' = "properties"
  /\ UNCHANGED <<entry, args, stack, subtractVars, trajectoryVars, geojson, map_match, custom_ids,
                 min_dates, converted, requests>>

\* Lines 716-721.
LoadProperties ==
  /\ entry = "query" /\ pc = "properties"
  /\ custom_ids' = [k \in DOMAIN features |-> PropertiesOf(features[k]).id]
  /\ min_dates' = [k \in DOMAIN features |->
                     PropertiesOf(features[k]).min_date]
  /\ pc' = "convert"
  /\ UNCHANGED <<entry, args, stack, subtractVars, trajectoryVars, geojson, map_match, features, origin,
                 converted, requests>>

\* Lines 723-724: the conversion of the next feature; an exception ends
\* load_features and is what the caller gets.
LoadConvert ==
  /\ entry = "query" /\ pc = "convert"
  /\ Len(converted) < Len(features)
  /\ \E split_ok \in BOOLEAN :
       LET max_area == IF ~map_match THEN MAX_AREA ELSE MAX_MAP_MATCH_AREA
           out == convert_to_geojson_poly(features[Len(converted) + 1],
                                          DEFAULT_WIDTH, max_area, split_ok)
       IN IF out.type = "Exception"
            THEN /\ pc' = "Exception"
                 /\ result' = out
                 /\ UNCHANGED converted
            ELSE /\ converted' = Append(converted, out)
                 /\ UNCHANGED <<pc, result>>
  /\ UNCHANGED <<entry, args, stack, subtractVars, frames, paramVars, stitchVars, clusterVars, geojson,
                 map_match, features, origin, custom_ids, min_dates, requests>>

\* Lines 725-737: None is dropped, lists are flattened, and the result must
\* not be empty.
LoadReturn ==
  /\ entry = "query" /\ pc = "convert"
  /\ Len(converted) = Len(features)
  /\ LET kept == SortedSeq({k \in DOMAIN converted :
                              converted[k].type # "None"})
         new_features == flat_list([j \in DOMAIN kept |-> converted[kept[j]]])
     IN /\ features' = new_features
        /\ origin' = Concat([j \in DOMAIN kept |->
                       IF converted[kept[j]].type = "list"
                         THEN [i \in DOMAIN converted[kept[j]].items |->
                                 origin[kept[j]]]
                         ELSE <<origin[kept[j]]>>])
        /\ pc' = IF new_features = <<>> THEN "AssertionError: len(features)"
                                        ELSE "loaded"
  /\ UNCHANGED <<entry, args, stack, subtractVars, trajectoryVars, geojson, map_match, custom_ids,
                 min_dates, converted, requests>>

\* The value zip_longest gives at position i of list s.
ZipLongest(s, i) == IF i <= Len(s) THEN s[i] ELSE PyNone

\* query_latest_imagery, lines 446-448 and 481: one turn of the loop over
\* zip_longest(features, custom_ids, min_days).
QuerySubmit ==
  /\ entry = "query" /\ pc = "loaded"
  /\ LET i == Len(requests) + 1
         feature == ZipLongest(features, i)
     IN /\ i <= Max(Len(features), Len(custom_ids))
        /\ IF feature.type = "None"
             THEN /\ pc' = "AttributeError"
                  /\ UNCHANGED requests
           ELSE IF ~(area(GeomOf(feature)) <= MAX_AREA)
             THEN /\ pc' = "AssertionError: area(data) <= MAX_AREA"
                  /\ UNCHANGED requests
           ELSE /\ requests' = Append(requests,
                      [data |-> GeomOf(feature),
                       custom_id |-> ZipLongest(custom_ids, i),
                       min_day |-> ZipLongest(min_dates, i)])
                /\ UNCHANGED pc
  /\ UNCHANGED <<entry, args, stack, subtractVars, trajectoryVars, geojson, map_match, features, origin,
                 custom_ids, min_dates, converted>>

\* The loop has gone through the longest list.
QueryDone ==
  /\ entry = "query" /\ pc = "loaded"
  /\ Len(requests) >= Max(Len(features), Len(custom_ids))
  /\ pc' = "done"
  /\ UNCHANGED <<entry, args, stack, subtractVars, trajectoryVars, geoVars>>

\* Lines 711-735 of load_features as one function of the feature list: the
\* MultiPolygons exploded, every feature converted, None dropped and lists
\* flattened.  An exception of a conversion is the value of the whole.
TransformPipeline(fs, max_area, split_ok) ==
  LET exploded == flat_list([i \in DOMAIN fs |->
                    IF GeomOf(fs[i]).type = "MultiPolygon"
                      THEN explode_multipolygon(fs[i])
                      ELSE fs[i]])
      outs == [k \in DOMAIN exploded |->
                 convert_to_geojson_poly(exploded[k], DEFAULT_WIDTH, max_area,
                                         split_ok)]
      failed == {k \in DOMAIN outs : outs[k].type = "Exception"}
      kept == SortedSeq({k \in DOMAIN outs : outs[k].type # "None"})
  IN IF failed # {}
       THEN outs[CHOOSE k \in failed : \A o \in failed : k <= o]
       ELSE PyList(flat_list([j \in DOMAIN kept |-> outs[kept[j]]]))

----------------------------------------------------------------------------
(* The inputs of the geometry pipeline *)

\* A list of points given in metres.
Metres(ps) ==
  [k \in DOMAIN ps |-> <<ps[k][1] * UnitsPerMetre, ps[k][2] * UnitsPerMetre>>]

\* The coordinates of a rectangular polygon w metres wide and h metres high
\* whose lower left corner is x metres east and y metres north.
Rect(x, y, w, h) ==
  box(x * UnitsPerMetre, y * UnitsPerMetre,
      (x + w) * UnitsPerMetre, (y + h) * UnitsPerMetre).coordinates

\* n squares of 100 m in a row, 100 m apart.
Squares(n) == [k \in 1..n |-> Rect(200 * (k - 1), 0, 100, 100)]

\* The geometries of the input files: a point; lines that are short, 200 km
\* long, bent once, bent four times and crossing themselves; polygons of
\* 0.01, 0.5, 4 and 8 square kilometres; multipolygons of 2 and of 9 members;
\* a collection of a point and a polygon; a multipoint, alone and in a
\* collection.
Geometries ==
  { Point(<<0, 0>>),
    LineString(Metres(<< <<0, 0>>, <<100, 0>> >>)),
    LineString(Metres(<< <<0, 0>>, <<200000, 0>> >>)),
    LineString(Metres(<< <<0, 0>>, <<100, 0>>, <<100, 100>> >>)),
    LineString(Metres(<< <<0, 0>>, <<100, 0>>, <<100, 100>>, <<200, 100>>,
                         <<200, 200>>, <<300, 200>> >>)),
    LineString(Metres(<< <<0, 0>>, <<100, 0>>, <<100, 100>>, <<50, 100>>,
                         <<50, -50>> >>)),
    Polygon(Rect(0, 0, 100, 100)),
    Polygon(Rect(0, 0, 1000, 500)),
    Polygon(Rect(0, 0, 2000, 2000)),
    Polygon(Rect(0, 0, 4000, 2000)),
    MultiPolygon(Squares(2)),
    MultiPolygon(Squares(9)),
    GeometryCollection(<< Point(<<0, 0>>),
                          Polygon(Rect(1000, 1000, 100, 100)) >>),
    MultiPoint(Metres(<< <<0, 0>>, <<100, 0>> >>)),
    GeometryCollection(<< Point(<<0, 0>>),
                          MultiPoint(Metres(<< <<0, 0>>, <<100, 0>> >>)) >>) }

\* The k-th feature of a file carries the k-th id and min_date.
InputFeature(k, geometry) ==
  Feature([id |-> IdOf(k), min_date |-> MinDateOf(k)], geometry)

\* Line 709: load_features starts from the features of the file.
GeoInit ==
  /\ entry = "query" /\ pc = "explode"
  /\ args = <<>>
  /\ \E gs \in UNION {[1..n -> Geometries] : n \in 1..MaxFeatures} :
       geojson = [k \in DOMAIN gs |-> InputFeature(k, gs[k])]
  /\ map_match \in BOOLEAN
  /\ features = geojson
  /\ origin = [k \in DOMAIN geojson |-> k]
  /\ custom_ids = <<>> /\ min_dates = <<>> /\ converted = <<>>
  /\ requests = <<>>
  /\ frames = <<>> /\ DefaultParams /\ NoStitchState /\ NoClusterState
  /\ result = <<>> /\ stack = <<>> /\ NoSubtractState

GeoNext ==
  \/ LoadExplode \/ LoadProperties \/ LoadConvert \/ LoadReturn
  \/ QuerySubmit \/ QueryDone

GeoSpec == GeoInit /\ [][GeoNext]_vars

----------------------------------------------------------------------------
(* Vocabulary of the properties of the geometry pipeline *)

\* load_features has returned its three lists.
FeaturesLoaded ==
  /\ entry = "query"
  /\ pc \in {"loaded", "done", "AttributeError",
             "AssertionError: area(data) <= MAX_AREA"}

\* The conversions are under way: features is still the exploded list.
Converting == entry = "query" /\ pc \in {"convert", "Exception"}

\* The area ceiling of the call (line 723).
Ceiling == IF ~map_match THEN MAX_AREA ELSE MAX_MAP_MATCH_AREA

IsPolygonal(feature) == GeomOf(feature).type \in {"Polygon", "MultiPolygon"}

----------------------------------------------------------------------------
(* C3: every feature load_features returns has an area of at most the
   ceiling of the call, whatever the type of the input geometry, and the
   check area(data) <= MAX_AREA before a query never fails. *)
C3_AreaWithinCeiling ==
  /\ FeaturesLoaded =>
       \A k \in DOMAIN features : area(GeomOf(features[k])) <= Ceiling
  /\ pc # "AssertionError: area(data) <= MAX_AREA"

(* C4: the id and the min_date load_features returns at index i are those of
   the input feature the polygon at index i was made from, and so are the
   ones a request is submitted with. *)
C4_IdsFollowTheirFeature ==
  FeaturesLoaded =>
    /\ \A i \in DOMAIN features :
         /\ i <= Len(custom_ids)
         /\ custom_ids[i] = IdOf(origin[i])
         /\ min_dates[i] = MinDateOf(origin[i])
    /\ \A i \in DOMAIN requests :
         /\ requests[i].custom_id = IdOf(origin[i])
         /\ requests[i].min_day = MinDateOf(origin[i])

(* C5: every MultiPolygon load_features returns has at most 8 member
   polygons, whether it was cut from an input MultiPolygon or made by
   buffering a LineString that was split at its sharp turns. *)
C5_MultiPolygonsWithinCardinality ==
  FeaturesLoaded =>
    \A k \in DOMAIN features :
      GeomOf(features[k]).type = "MultiPolygon" =>
        Len(GeomOf(features[k]).coordinates) <= MAX_MULTIPOLYGON_CARDINALITY

(* C6: the conversion returns a Polygon or MultiPolygon feature unchanged
   exactly when its area is at most the ceiling the caller supplied (a
   feature whose area equals the ceiling included), and a list of parts
   otherwise. *)
C6_PassThroughIffWithinCeiling ==
  Converting =>
    \A k \in DOMAIN converted :
      IsPolygonal(features[k]) =>
        IF area(GeomOf(features[k])) <= Ceiling
          THEN converted[k].type # "list" /\ converted[k] = features[k]
          ELSE converted[k].type = "list"

\* The geometries of a list of features, in order.
GeometriesOf(fs) == [k \in DOMAIN fs |-> GeomOf(fs[k])]

(* C13: the transform pipeline (MultiPolygon explosion, conversion of every
   feature, flattening) applied to the polygons it returned gives the same
   polygons back: as many, in the same order, with the same geometry. *)
C13_PipelineIdempotent ==
  FeaturesLoaded =>
    \A split_ok \in BOOLEAN :
      LET again == TransformPipeline(features, Ceiling, split_ok)
      IN /\ again.type = "list"
         /\ GeometriesOf(again.items) = GeometriesOf(features)

\* A LineString that crosses or touches itself.
SelfIntersecting(feature) ==
  /\ GeomOf(feature).type = "LineString"
  /\ ~is_simple(GeomOf(feature).coordinates)

\* The exploded features whose buffering failed: self-intersecting lines
\* whose conversion gave no polygon.
FailedLines ==
  {k \in DOMAIN converted :
     SelfIntersecting(features[k]) /\ ~IsPolygonal(converted[k])}

\* A step that converts the next feature, and the step that ends the loop.
ConvertStep ==
  /\ entry = "query" /\ pc = "convert" /\ Len(converted) < Len(features)
  /\ (converted' # converted \/ pc' # pc)

ReturnStep ==
  /\ entry = "query" /\ pc = "convert" /\ Len(converted) = Len(features)
  /\ pc' # pc

(* C14: a self-intersecting LineString whose buffering fails raises no error
   in its conversion and yields no polygon (the conversion is None); the
   list load_features builds lacks that feature only: every other feature is
   converted and returned, in order, wherever the failing line stood. *)
C14_FailedLineIsSkipped ==
  [][/\ (ConvertStep /\ SelfIntersecting(features[Len(converted) + 1])) =>
          /\ pc' = "convert"
          /\ \/ Last(converted') = PyNone
             \/ IsPolygonal(Last(converted'))
     /\ ReturnStep =>
          LET others == (DOMAIN features) \ FailedLines
          IN /\ \A k \in FailedLines : converted[k] = PyNone
             /\ \A k \in others : converted[k].type # "None"
             /\ features' = flat_list(Pick(converted, others))
             /\ \A i \in DOMAIN features' :
                  \A k \in FailedLines : origin'[i] # origin[k]
             /\ others # {} => pc' = "loaded"]_vars

\* C14's case: load_features returned for a file whose first feature is a
\* self-intersecting line that failed to buffer, with the polygon made from
\* the feature behind it.
C14_Witness ==
  /\ entry = "query" /\ pc = "loaded"
  /\ Len(geojson) = 2 /\ Len(converted) = 2
  /\ SelfIntersecting(geojson[1])
  /\ converted[1] = PyNone
  /\ Len(features) >= 1
  /\ \A i \in DOMAIN features : origin[i] = 2

\* The failing line stands last in the file.
C14_WitnessLast ==
  /\ entry = "query" /\ pc = "loaded"
  /\ Len(geojson) = 2 /\ Len(converted) >= 2
  /\ SelfIntersecting(geojson[2])
  /\ Last(converted) = PyNone
  /\ \A i \in DOMAIN features : origin[i] = 1

SupportedTypes ==
  {"Point", "LineString", "Polygon", "MultiPolygon", "GeometryCollection"}

\* The type convert_to_geojson_poly has no branch for, when it meets one in
\* the feature or, for a GeometryCollection, in its first such member; "" when
\* every type is supported.
UnsupportedTypeIn(feature) ==
  LET geom == GeomOf(feature)
      bad == IF geom.type = "GeometryCollection"
               THEN {k \in DOMAIN geom.geometries :
                       geom.geometries[k].type \notin SupportedTypes}
               ELSE {}
  IN IF geom.type \notin SupportedTypes THEN geom.type
     ELSE IF bad # {}
       THEN geom.geometries[CHOOSE k \in bad : \A o \in bad : k <= o].type
     ELSE ""

(* C15: the conversion of a geometry whose type is none of Point, LineString,
   Polygon, MultiPolygon, GeometryCollection fails with an error whose
   message names the type, and the failure ends load_features: a file with
   such a geometry never has features returned. *)
C15_UnsupportedTypeAborts ==
  /\ (entry = "query" /\ pc = "Exception"
        /\ UnsupportedTypeIn(features[Len(converted) + 1]) # "") =>
       /\ result.type = "Exception"
       /\ result.message =
            "Unsupported type: " \o UnsupportedTypeIn(features[Len(converted) + 1])
  /\ (entry = "query"
        /\ \E k \in DOMAIN geojson : UnsupportedTypeIn(geojson[k]) # "") =>
       /\ pc \in {"explode", "properties", "convert", "Exception"}
       /\ (pc = "convert" => \A k \in DOMAIN converted :
                                 UnsupportedTypeIn(features[k]) = "")

\* C15's case: load_features ended with the exception at a MultiPoint that
\* follows a feature already converted.
C15_Witness ==
  /\ entry = "query" /\ pc = "Exception"
  /\ Len(converted) = 1
  /\ GeomOf(features[2]).type = "MultiPoint"
  /\ result.type = "Exception"

----------------------------------------------------------------------------
(* katana called on its own *)

\* The sides of the polygons katana is given and its thresholds, in
\* coordinate units.  With whole sides and a threshold of a unit or more no
\* call reaches the recursion depth 250.
KatanaSides == {1, 2, 3, 5, 8}

KatanaThresholds == {1, 2, 3, 4, 7}

\* A rectangle, and two rectangles a unit apart as one MultiPolygon.
KatanaPolygons ==
  {box(0, 0, w, h) : w \in KatanaSides, h \in KatanaSides}
    \cup {MultiPolygon(<< box(0, 0, w, h).coordinates,
                          box(w + 1, 1, w + 1 + h, 1 + w).coordinates >>) :
            w \in KatanaSides, h \in KatanaSides}

KatanaInit ==
  /\ entry = "katana" /\ pc = "start"
  /\ args \in [geometry : KatanaPolygons, threshold : KatanaThresholds]
  /\ frames = <<>> /\ DefaultParams /\ NoStitchState /\ NoClusterState
  /\ NoGeoState
  /\ result = <<>> /\ stack = <<>> /\ NoSubtractState

\* katana(geometry, threshold)
KatanaCall ==
  /\ entry = "katana" /\ pc = "start"
  /\ result' = katana(args.geometry, args.threshold, 0)
  /\ pc' = "done"
  /\ UNCHANGED <<entry, args, stack, subtractVars, frames, paramVars, stitchVars, clusterVars,
                 geoVars>>

KatanaNext == KatanaCall

KatanaSpec == KatanaInit /\ [][KatanaNext]_vars

KatanaReturned == entry = "katana" /\ pc = "done"

\* Twice the area of a Polygon or MultiPolygon, in squares of the unit.
Area2(geom) ==
  SumSeq([k \in DOMAIN ExteriorRings(geom) |->
            Abs(RingArea2(ExteriorRings(geom)[k]))])

(* C16: every sub-polygon katana returns has a bounding box whose larger
   side is at most the threshold, and the areas of the sub-polygons sum to
   the area of the polygon katana was given. *)
C16_KatanaPartsFitAndCover ==
  KatanaReturned =>
    /\ \A k \in DOMAIN result :
         LET b == bounds(result[k])
         IN /\ b[3] - b[1] <= args.threshold
            /\ b[4] - b[2] <= args.threshold
    /\ SumSeq([k \in DOMAIN result |-> Area2(result[k])]) = Area2(args.geometry)

\* C16's case: katana returned after cutting a MultiPolygon whose members
\* are both larger than the threshold, some of them more than once.
C16_Witness ==
  /\ KatanaReturned
  /\ args.geometry.type = "MultiPolygon"
  /\ \A r \in Range(ExteriorRings(args.geometry)) :
       ~KatanaFits(BoundsOf(PointsOf(<<r>>)), args.threshold)
  /\ Len(result) > 4

----------------------------------------------------------------------------
(* imagery/query.py: write_geojson *)

frames_to_linestring(fs, ident) ==
  Feature([id |-> ident, sequence |-> fs[1].sequence],
          LineString([k \in DOMAIN fs |-> <<fs[k].lon, 0>>]))

frames_to_points(fs) ==
  [k \in DOMAIN fs |->
     Feature([sequence |-> fs[k].sequence, idx |-> fs[k].idx],
             Point(<<fs[k].lon, 0>>))]

\* Lines 1001-1007: the loop over enumerate(frame_lists), from position p on
\* (ident is p - 1).  The points made for a list of one frame are dropped.
RECURSIVE LineFeaturesFrom(_, _)
LineFeaturesFrom(frame_lists, p) ==
  IF p > Len(frame_lists) THEN <<>>
  ELSE (IF Len(frame_lists[p]) > 1
          THEN <<frames_to_linestring(frame_lists[p], p - 1)>>
          ELSE <<>>)
       \o LineFeaturesFrom(frame_lists, p + 1)

\* The features write_geojson dumps to frames.geojson: its own, then those
\* of the file that was there (existing is None when there was no file).
write_geojson(frame_lists, points, existing) ==
  (IF points THEN frames_to_points(frame_lists[1])
             ELSE LineFeaturesFrom(frame_lists, 1))
    \o (IF existing.type = "None" THEN <<>> ELSE existing.items)

\* The frame lists written: up to MaxSeqs paths of one to three frames.
WritePaths ==
  UNION {[1..n -> {1, 2, 3}] : n \in 0..MaxSeqs}

WriteFrameLists(ns) ==
  [p \in DOMAIN ns |->
     SeqFrames([nframes |-> ns[p], lon |-> p, dir |-> 1, t0 |-> 0], p)]

\* The callers pass points = True with the one list [frames] only.
WriteInit ==
  /\ entry = "write_geojson" /\ pc = "start"
  /\ \E ns \in WritePaths : \E points \in BOOLEAN :
     \E existing \in {PyNone,
                       PyList(<<Feature(NoProperties, Point(<<0, 0>>))>>)} :
       /\ points => Len(ns) = 1
       /\ args = [frame_lists |-> WriteFrameLists(ns), points |-> points,
                  existing |-> existing]
  /\ frames = <<>> /\ DefaultParams /\ NoStitchState /\ NoClusterState
  /\ NoGeoState
  /\ result = <<>> /\ stack = <<>> /\ NoSubtractState

WriteCall ==
  /\ entry = "write_geojson" /\ pc = "start"
  /\ result' = write_geojson(args.frame_lists, args.points, args.existing)
  /\ pc' = "done"
  /\ UNCHANGED <<entry, args, stack, subtractVars, frames, paramVars, stitchVars, clusterVars,
                 geoVars>>

WriteNext == WriteCall

WriteSpec == WriteInit /\ [][WriteNext]_vars

\* write_geojson has written the paths of a stitch into a fresh directory.
PathsWritten ==
  /\ entry = "write_geojson" /\ pc = "done"
  /\ ~args.points /\ args.existing.type = "None"

(* C17: write_geojson called with stitched paths emits exactly one feature
   per path, a LineString for a path of two or more frames and a Point for a
   path of one frame, each with an id property equal to the position of the
   path. *)
C17_OneFeaturePerPath ==
  PathsWritten =>
    /\ Len(result) = Len(args.frame_lists)
    /\ \A p \in DOMAIN result :
         /\ "id" \in DOMAIN result[p].properties
         /\ result[p].properties.id = p - 1
         /\ GeomOf(result[p]).type =
              IF Len(args.frame_lists[p]) > 1 THEN "LineString" ELSE "Point"

\* What does hold: the paths of two or more frames, and no others, have their
\* LineString feature, with the position of the path as its id.
LinesWrittenForLongPaths ==
  PathsWritten =>
    LET long == SortedSeq({p \in DOMAIN args.frame_lists :
                             Len(args.frame_lists[p]) > 1})
    IN /\ Len(result) = Len(long)
       /\ \A j \in DOMAIN result :
            /\ GeomOf(result[j]).type = "LineString"
            /\ result[j].properties.id = long[j] - 1
            /\ Len(GeomOf(result[j]).coordinates) =
                 Len(args.frame_lists[long[j]])

----------------------------------------------------------------------------
(* geojson_linestring_to_poly called on its own *)

\* The eight compass directions, and the lengths of a step along one
\* coordinate in metres: shorter and longer than the default width.
CompassSteps ==
  {<<1, 0>>, <<1, 1>>, <<0, 1>>, <<-1, 1>>,
   <<-1, 0>>, <<-1, -1>>, <<0, -1>>, <<1, -1>>}

StepLengths == {10, 50}

LineWidths == {10, DEFAULT_WIDTH}

\* The points reached from the origin by the steps st, in coordinate units.
RECURSIVE PathFrom(_, _)
PathFrom(p, st) ==
  IF st = <<>> THEN <<p>>
  ELSE <<p>> \o PathFrom(<<p[1] + st[1].dir[1] * st[1].len * UnitsPerMetre,
                           p[2] + st[1].dir[2] * st[1].len * UnitsPerMetre>>,
                         Tail(st))

\* The step lists of the lines: a short step is the last one or is followed
\* by a step in its own direction, so that the segments left after the
\* filtering run along the compass directions.
LineStepLists ==
  {st \in UNION {[1..n -> [dir : CompassSteps, len : StepLengths]] :
                   n \in 1..MaxSegments} :
     \A i \in 1..(Len(st) - 1) :
        st[i].len < DEFAULT_WIDTH => st[i + 1].dir = st[i].dir}

LineInit ==
  /\ entry = "geojson_linestring_to_poly" /\ pc = "start"
  /\ \E st \in LineStepLists : \E width \in LineWidths :
       args = [linestring |-> LineString(PathFrom(<<0, 0>>, st)),
               width |-> width]
  /\ frames = <<>> /\ DefaultParams /\ NoStitchState /\ NoClusterState
  /\ NoGeoState
  /\ result = <<>> /\ stack = <<>> /\ NoSubtractState

\* geojson_linestring_to_poly(linestring, width)
LineCall ==
  /\ entry = "geojson_linestring_to_poly" /\ pc = "start"
  /\ result' = geojson_linestring_to_poly(args.linestring, args.width)
  /\ pc' = "done"
  /\ UNCHANGED <<entry, args, stack, subtractVars, frames, paramVars, stitchVars, clusterVars,
                 geoVars>>

LineNext == LineCall

LineSpec == LineInit /\ [][LineNext]_vars

LineReturned == entry = "geojson_linestring_to_poly" /\ pc = "done"

\* The points of the argument that the short-segment filter keeps.
KeptCoords == filter_small_segments(args.linestring, args.width)

\* The turns of the kept line, in degrees.
TurnAt(i) ==
  angle_between_segments(KeptCoords[i - 2], KeptCoords[i - 1], KeptCoords[i])

NoSharpTurn == \A i \in 3..Len(KeptCoords) : TurnAt(i) <= 45

(* C18: for a LineString that keeps k >= 2 points after the short-segment
   filtering and has no turn above 45 degrees, geojson_linestring_to_poly
   returns a Polygon with exactly one ring of exactly 2k + 1 coordinate
   pairs, every position filled, the last pair equal to the first. *)
C18_RingOfTwoKPlusOne ==
  (LineReturned /\ Len(KeptCoords) >= 2 /\ NoSharpTurn) =>
    /\ GeomOf(result).type = "Polygon"
    /\ Len(GeomOf(result).coordinates) = 1
    /\ LET ring == GeomOf(result).coordinates[1]
       IN /\ Len(ring) = 2 * Len(KeptCoords) + 1
          /\ \A j \in DOMAIN ring : Len(ring[j]) = 2
          /\ Last(ring) = ring[1]

\* C18's case: a line of four kept points with a turn of 45 degrees was
\* buffered into a ring of nine pairs.
C18_Witness ==
  /\ LineReturned
  /\ Len(KeptCoords) = 4
  /\ NoSharpTurn
  /\ \E i \in 3..4 : TurnAt(i) = 45
  /\ Len(GeomOf(result).coordinates[1]) = 9

\* The two-point line gives five pairs.
C18_TwoPointWitness ==
  /\ LineReturned
  /\ Len(KeptCoords) = 2
  /\ Len(get_coords(args.linestring)) > 2
  /\ Len(GeomOf(result).coordinates[1]) = 5

----------------------------------------------------------------------------
(* katana, one call and one return at a time *)

\* The polygons and thresholds of the runs that are followed call by call: a
\* square of one unit and the two rectangles of two units.  A side of one
\* unit cannot be halved: as in floating point at the limit of its
\* resolution, one box is then empty and the other holds the whole geometry.
\* A threshold of 0 is met by no polygon.
DeepPolygons == {box(0, 0, 1, 1), box(0, 0, 2, 1), box(0, 0, 1, 2)}

DeepThresholds == {0, 1, 2}

\* A call of katana that has not returned: its arguments, its b0 (line 107),
\* the boxes its loop has still to take, and its list `result`.
KatanaFrame(geometry, b0, count) ==
  [geometry |-> geometry, count |-> count, b0 |-> b0,
   boxes |-> KatanaBoxes(b0), pieces |-> <<>>]

\* Mutant of KatanaStops: the depth test is passed one call later.
KatanaStopsOneLater(frame, threshold) ==
  KatanaFits(frame.b0, threshold) \/ frame.count = 251

\* Line 110: max(width, height) <= threshold or count == 250.
KatanaStops(frame, threshold) ==
  KatanaFits(frame.b0, threshold) \/ frame.count = 250

\* What the call of the frame returns once its loop is over (lines 131-141),
\* or at once when line 110 holds.
KatanaValue(frame, threshold) ==
  IF KatanaStops(frame, threshold) THEN <<frame.geometry>>
  ELSE IF frame.count > 0 THEN frame.pieces
  ELSE SinglePart(frame.pieces)

KatanaStepInit ==
  /\ entry = "katana" /\ pc = "start"
  /\ args \in [geometry : DeepPolygons, threshold : DeepThresholds]
  /\ frames = <<>> /\ DefaultParams /\ NoStitchState /\ NoClusterState
  /\ NoGeoState
  /\ result = <<>> /\ stack = <<>> /\ NoSubtractState

\* The caller's call katana(geometry, threshold), with count = 0.
KatanaEnter ==
  /\ entry = "katana" /\ pc = "start"
  /\ \E b0 \in {bounds(args.geometry)} :
       stack' = <<KatanaFrame(args.geometry, b0, 0)>>
  /\ pc' = "run"
  /\ UNCHANGED <<entry, args, frames, paramVars, stitchVars, clusterVars,
                 result, geoVars,
                 subtractVars>>

\* One turn of the loop `for d in (a, b,)` of the innermost call (lines
\* 122-130): the intersection with the next box, and the recursive call when
\* it is a polygon.
KatanaDescend ==
  /\ entry = "katana" /\ pc = "run"
  /\ ~KatanaStops(stack[1], args.threshold)
  /\ stack[1].boxes # <<>>
  /\ \E c \in {intersection(stack[1].geometry, Head(stack[1].boxes))} :
       IF c = <<>>
         THEN stack' = <<[stack[1] EXCEPT !.boxes = Tail(@)]>> \o Tail(stack)
         ELSE \E b0 \in {bounds(c[1])} :
                stack' = <<KatanaFrame(c[1], b0, stack[1].count + 1),
                           [stack[1] EXCEPT !.boxes = Tail(@)]>>
                           \o Tail(stack)
  /\ UNCHANGED <<entry, pc, args, frames, paramVars, stitchVars, clusterVars,
                 result, geoVars,
                 subtractVars>>

\* The innermost call returns: to the call that made it, which extends its
\* result (line 130), or to the caller of katana.
KatanaReturn ==
  /\ entry = "katana" /\ pc = "run"
  /\ KatanaStops(stack[1], args.threshold) \/ stack[1].boxes = <<>>
  /\ IF Len(stack) = 1
       THEN /\ result' = KatanaValue(stack[1], args.threshold)
            /\ stack' = <<>>
            /\ pc' = "done"
       ELSE /\ stack' = <<[stack[2] EXCEPT !.pieces =
                             @ \o KatanaValue(stack[1], args.threshold)]>>
                         \o Tail(Tail(stack))
            /\ UNCHANGED <<pc, result>>
  /\ UNCHANGED <<entry, args, frames, paramVars, stitchVars, clusterVars,
                 geoVars,
                 subtractVars>>

KatanaStepNext == KatanaEnter \/ KatanaDescend \/ KatanaReturn

KatanaStepSpec == KatanaStepInit /\ [][KatanaStepNext]_vars

\* The interpreter runs the call to its end.
FairKatanaStepSpec == KatanaStepSpec /\ WF_vars(KatanaStepNext)

\* The number of nested recursive calls: the calls on the stack below the
\* caller's own.
NestedCalls == IF stack = <<>> THEN 0 ELSE Len(stack) - 1

(* C21: katana terminates for every polygon and every threshold, and no
   chain of calls is deeper than 250 nested recursive calls. *)
C21_KatanaTerminatesWithinDepth ==
  /\ [](entry = "katana" => NestedCalls <= 250)
  /\ <>(entry = "katana" /\ pc = "done")

\* C21's case: katana returned for a threshold that no polygon meets, so
\* that only the depth test ended the recursion.
C21_Witness ==
  /\ entry = "katana" /\ pc = "done"
  /\ args.threshold <= 0
  /\ Len(result) >= 1

\* A call at depth 250 is under way.
C21_DeepestCall == entry = "katana" /\ pc = "run" /\ NestedCalls = 250

\* The steps return what katana computes as a function.
StepsAgreeWithKatana ==
  (entry = "katana" /\ pc = "done" /\ stack = <<>> /\ args.threshold >= 1) =>
    result = katana(args.geometry, args.threshold, 0)

----------------------------------------------------------------------------
(* The paths of stitch and the clusters they come from *)

\* A frame without its heading: its sequence and idx.
KeyOf(f) == <<f.sequence, f.idx>>

KeysAlong(path) == [i \in DOMAIN path |-> KeyOf(path[i])]

\* The ids of the sequences of a cluster, in the order they were appended.
JoinOrder(c) == [k \in DOMAIN c |-> c[k][1].sequence]

(* C22: each stitched path is the concatenation of the sequences of its
   cluster in the order in which they were joined; inside the path the
   frames of each sequence are contiguous and in ascending idx, and no
   sequence has frames in more than one path. *)
C22_PathIsClusterInJoinOrder ==
  StitchReturned =>
    /\ \A p \in DOMAIN all_clusters :
         KeysAlong(result[p]) =
           Concat([k \in DOMAIN all_clusters[p] |->
                     KeysAlong(SeqOf(JoinOrder(all_clusters[p])[k]))])
    /\ \A p \in DOMAIN result :
         \A i \in DOMAIN result[p] : \A j \in DOMAIN result[p] :
            (i < j /\ result[p][i].sequence = result[p][j].sequence) =>
              /\ result[p][i].idx < result[p][j].idx
              /\ \A m \in i..j : result[p][m].sequence = result[p][i].sequence
    /\ \A id \in SeqIds : Cardinality(PathsOf(id)) = 1

\* C22's case: stitch returned a path made of two or more sequences, and
\* another path beside it.
C22_Witness ==
  /\ StitchReturned
  /\ \E p \in DOMAIN all_clusters : Len(all_clusters[p]) >= 2
  /\ Len(result) >= 2

----------------------------------------------------------------------------
(* explode_sharp_angles, called on its own *)

\* The coordinate lists: a point, or the points reached by up to
\* MaxSegments steps of 50 m along the compass directions.
ExplodeStepLists ==
  UNION {[1..n -> [dir : CompassSteps, len : {50}]] : n \in 0..MaxSegments}

ExplodeInit ==
  /\ entry = "explode_sharp_angles" /\ pc = "start"
  /\ \E st \in ExplodeStepLists : args = [coords |-> PathFrom(<<0, 0>>, st)]
  /\ frames = <<>> /\ DefaultParams /\ NoStitchState /\ NoClusterState
  /\ NoGeoState
  /\ result = <<>> /\ stack = <<>> /\ NoSubtractState

\* explode_sharp_angles(coords), with the default threshold.
ExplodeCall ==
  /\ entry = "explode_sharp_angles" /\ pc = "start"
  /\ result' = explode_sharp_angles(args.coords, 45)
  /\ pc' = "done"
  /\ UNCHANGED <<entry, args, stack, subtractVars, frames, paramVars, stitchVars, clusterVars,
                 geoVars>>

ExplodeNext == ExplodeCall

ExplodeSpec == ExplodeInit /\ [][ExplodeNext]_vars

ExplodeReturned == entry = "explode_sharp_angles" /\ pc = "done"

\* The segments of a list of points: its pairs of consecutive points.
SegmentsOf(line) == [i \in 1..(Len(line) - 1) |-> <<line[i], line[i + 1]>>]

\* The positions (from 3 on) of the points of the argument at which the
\* line has turned by more than 45 degrees, and the turns of exactly 45.
SharpTurns ==
  {i \in 3..Len(args.coords) :
     angle_between_segments(args.coords[i - 2], args.coords[i - 1],
                            args.coords[i]) > 45}

TurnsOf45 ==
  {i \in 3..Len(args.coords) :
     angle_between_segments(args.coords[i - 2], args.coords[i - 1],
                            args.coords[i]) = 45}

(* C23: for a coordinate list with k turns above 45 degrees,
   explode_sharp_angles returns 2k + 1 sub-lines; the segments of the
   multi-point sub-lines, taken in order, are the segments of the input,
   each once; the single-point sub-lines are the sharp corner vertices in
   order; no multi-point sub-line has a turn above 45 degrees (so a turn of
   exactly 45 degrees does not split the line). *)
C23_SubLinesOfSharpTurns ==
  ExplodeReturned =>
    /\ Len(result) = 2 * Cardinality(SharpTurns) + 1
    /\ Concat([k \in DOMAIN result |-> SegmentsOf(result[k])])
         = SegmentsOf(args.coords)
    /\ Len(args.coords) >= 2 =>
         Pick(result, {k \in DOMAIN result : Len(result[k]) = 1})
           = [j \in 1..Cardinality(SharpTurns) |->
                <<args.coords[SortedSeq(SharpTurns)[j] - 1]>>]
    /\ \A k \in DOMAIN result : \A i \in 3..Len(result[k]) :
         angle_between_segments(result[k][i - 2], result[k][i - 1],
                                result[k][i]) <= 45

\* C23's case: a list of four points with one turn of exactly 45 degrees
\* and one sharper turn came back as three sub-lines.
C23_Witness ==
  /\ ExplodeReturned
  /\ Len(args.coords) = 4
  /\ Cardinality(SharpTurns) = 1 /\ Cardinality(TurnsOf45) = 1
  /\ Len(result) = 3

\* Two sharp turns give five sub-lines.
C23_TwoTurnsWitness ==
  ExplodeReturned /\ Cardinality(SharpTurns) = 2 /\ Len(result) = 5

----------------------------------------------------------------------------
(* The short-segment filter of geojson_linestring_to_poly *)

\* a is b with some of its elements left out.
RECURSIVE IsSubsequence(_, _)
IsSubsequence(a, b) ==
  IF a = <<>> THEN TRUE
  ELSE IF b = <<>> THEN FALSE
  ELSE IF Head(a) = Head(b) THEN IsSubsequence(Tail(a), Tail(b))
  ELSE IsSubsequence(a, Tail(b))

\* The square of the distance of two points, in coordinate units.
Distance2(p, q) ==
  (p[1] - q[1]) * (p[1] - q[1]) + (p[2] - q[2]) * (p[2] - q[2])

(* C24: filter_small_segments returns a subsequence of the input points
   that starts with the first input point and in which every two
   consecutive points are at least width apart; when fewer than two points
   remain, geojson_linestring_to_poly returns the square of side width
   around the first point. *)
C24_FilteredPointsApart ==
  LineReturned =>
    /\ IsSubsequence(KeptCoords, get_coords(args.linestring))
    /\ KeptCoords[1] = get_coords(args.linestring)[1]
    /\ \A i \in 1..(Len(KeptCoords) - 1) :
         Distance2(KeptCoords[i], KeptCoords[i + 1])
           >= (args.width * UnitsPerMetre) * (args.width * UnitsPerMetre)
    /\ Len(KeptCoords) < 2 =>
         /\ GeomOf(result).type = "Polygon"
         /\ Len(GeomOf(result).coordinates) = 1
         /\ LET first == get_coords(args.linestring)[1]
                ring == GeomOf(result).coordinates[1]
            IN /\ Len(ring) = 5 /\ ring[5] = ring[1]
               /\ ring[3][1] - ring[1][1] = args.width * UnitsPerMetre
               /\ ring[3][2] - ring[1][2] = args.width * UnitsPerMetre
               /\ ring[1][1] + ring[3][1] = 2 * first[1]
               /\ ring[1][2] + ring[3][2] = 2 * first[2]
               /\ ring[2] = <<ring[3][1], ring[1][2]>>
               /\ ring[4] = <<ring[1][1], ring[3][2]>>

\* C24's case: the filter dropped a point and kept two or more.
C24_Witness ==
  /\ LineReturned
  /\ Len(KeptCoords) >= 2
  /\ Len(KeptCoords) < Len(get_coords(args.linestring))

\* Only the first point was kept, and the square came back.
C24_SquareWitness ==
  /\ LineReturned
  /\ Len(get_coords(args.linestring)) >= 2
  /\ Len(KeptCoords) = 1
  /\ GeomOf(result).type = "Polygon"

----------------------------------------------------------------------------
(* util/geo.py: subtract_geojson *)

\* The rectangles of a list of features or geometries: the bounds of every
\* member polygon (the polygons of the model are rectangles).
RectsOf(fs) ==
  Concat([k \in DOMAIN fs |->
            [j \in DOMAIN ExteriorRings(GeomOf(fs[k])) |->
               BoundsOf(PointsOf(<<ExteriorRings(GeomOf(fs[k]))[j]>>))]])

\* The cells of the grid drawn through the coordinates xs and ys.
Cells(xs, ys) ==
  {c \in {<<x0, y0, x1, y1>> : x0 \in xs, y0 \in ys, x1 \in xs, y1 \in ys} :
     /\ c[1] < c[3] /\ \A x \in xs : ~(c[1] < x /\ x < c[3])
     /\ c[2] < c[4] /\ \A y \in ys : ~(c[2] < y /\ y < c[4])}

\* The cell lies in one of the rectangles.
Covered(c, rects) ==
  \E k \in DOMAIN rects :
     /\ rects[k][1] <= c[1] /\ c[3] <= rects[k][3]
     /\ rects[k][2] <= c[2] /\ c[4] <= rects[k][4]

\* The cells of the grid through the sides of all the rectangles that lie
\* in a rectangle of ms and in none of ss.
CellsBetween(ms, ss) ==
  {c \in Cells({r[1] : r \in Range(ms \o ss)} \cup {r[3] : r \in Range(ms \o ss)},
               {r[2] : r \in Range(ms \o ss)} \cup {r[4] : r \in Range(ms \o ss)}) :
     Covered(c, ms) /\ ~Covered(c, ss)}

\* The cells from left to right and, in a column, from bottom to top.
CellSeq(S) ==
  [k \in 1..Cardinality(S) |->
     CHOOSE c \in S :
        Cardinality({o \in S : \/ o[1] < c[1]
                               \/ o[1] = c[1] /\ o[2] < c[2]}) = k - 1]

\* shapely.difference(union_features(a), union_features(b)) followed by
\* unary_union (lines 557-572), for features of rectangles: the geometry of
\* the points of a that are not in b, written as the Polygon or the
\* MultiPolygon of the cells that make it up.  With b = [] it is
\* unary_union(to_shapely(a)).
difference(a, b) ==
  AsGeometry(CellSeq(CellsBetween(RectsOf(a), RectsOf(b))))[1]

\* The files: a minuend of one polygon, of 0.5 or of 4 square kilometres,
\* and subtrahend features that are a polygon of 1600 m2, one of 10000 m2,
\* one of 4 square kilometres, a point and a line of 100 m.
Minuends ==
  {Polygon(Rect(0, 0, 1000, 500)), Polygon(Rect(0, 0, 2000, 2000))}

Subtrahends ==
  {Polygon(Rect(100, 100, 40, 40)),
   Polygon(Rect(200, 100, 100, 100)),
   Polygon(Rect(0, 0, 2000, 2000)),
   Point(Metres(<< <<600, 300>> >>)[1]),
   LineString(Metres(<< <<700, 400>>, <<800, 400>> >>))}

\* Lines 541-549: the features of the two files.
SubtractInit ==
  /\ entry = "subtract_geojson" /\ pc = "minuend"
  /\ \E m \in Minuends :
     \E gs \in UNION {[1..n -> Subtrahends] : n \in 0..MaxFeatures} :
       args = [minuend |-> <<InputFeature(1, m)>>,
               subtrahend |-> [k \in DOMAIN gs |-> InputFeature(k, gs[k])],
               width |-> DEFAULT_WIDTH]
  /\ frames = <<>> /\ DefaultParams /\ NoStitchState /\ NoClusterState
  /\ NoGeoState
  /\ result = <<>> /\ stack = <<>> /\ NoSubtractState

\* The first of the conversions that raised.
FirstRaised(conv) ==
  conv[CHOOSE k \in DOMAIN conv :
         /\ conv[k].type = "Exception"
         /\ \A o \in DOMAIN conv : conv[o].type = "Exception" => k <= o]

\* [x for x in conv if x is not None]
NotNone(conv) == Pick(conv, {k \in DOMAIN conv : conv[k].type # "None"})

\* width * 1.25, in whole metres.
SubtrahendWidth(width) == (width * 5) \div 4

\* Lines 551-553: the minuend is converted, without the Nones, flattened.
SubtractMinuend ==
  /\ entry = "subtract_geojson" /\ pc = "minuend"
  /\ \E split_ok \in BOOLEAN :
       LET conv == [k \in DOMAIN args.minuend |->
                      convert_to_geojson_poly(args.minuend[k], args.width,
                                              AREA_LIMIT, split_ok)]
       IN IF \E k \in DOMAIN conv : conv[k].type = "Exception"
            THEN /\ pc' = "Exception"
                 /\ result' = FirstRaised(conv)
                 /\ UNCHANGED minuend_features
            ELSE /\ minuend_features' = flat_list(NotNone(conv))
                 /\ pc' = "subtrahend"
                 /\ UNCHANGED result
  /\ UNCHANGED <<entry, args, stack, frames, paramVars, stitchVars,
                 clusterVars, geoVars, subtrahend_features>>

\* Lines 554-557: the subtrahend is converted with the wider width; of
\* every conversion that is not None the geometry is taken with .get, which
\* a list does not have; the geometries of at least MIN_SUBTRAHEND_AREA are
\* kept, and the list is flattened.
SubtractSubtrahend ==
  /\ entry = "subtract_geojson" /\ pc = "subtrahend"
  /\ \E split_ok \in BOOLEAN :
       LET conv == [k \in DOMAIN args.subtrahend |->
                      convert_to_geojson_poly(args.subtrahend[k],
                                              SubtrahendWidth(args.width),
                                              AREA_LIMIT, split_ok)]
           geoms == [k \in DOMAIN NotNone(conv) |-> GeomOf(NotNone(conv)[k])]
       IN IF \E k \in DOMAIN conv : conv[k].type = "Exception"
            THEN /\ pc' = "Exception"
                 /\ result' = FirstRaised(conv)
                 /\ UNCHANGED subtrahend_features
          ELSE IF \E k \in DOMAIN conv : conv[k].type = "list"
            THEN /\ pc' = "Exception"
                 /\ result' = Raised("'list' object has no attribute 'get'")
                 /\ UNCHANGED subtrahend_features
          ELSE /\ subtrahend_features' =
                    flat_list(Pick(geoms,
                      {k \in DOMAIN geoms :
                         area(geoms[k]) >= MIN_SUBTRAHEND_AREA}))
               /\ pc' = "difference"
               /\ UNCHANGED result
  /\ UNCHANGED <<entry, args, stack, frames, paramVars, stitchVars,
                 clusterVars, geoVars, minuend_features>>

\* Lines 559-596: the difference (the union of the minuend when no
\* subtrahend is left), converted once more, flattened and wrapped in
\* features without properties; the features are written and returned.
SubtractDifference ==
  /\ entry = "subtract_geojson" /\ pc = "difference"
  /\ \E split_ok \in BOOLEAN :
       LET delta == convert_to_geojson_poly(
                      difference(minuend_features, subtrahend_features),
                      args.width, AREA_LIMIT, split_ok)
       IN IF delta.type = "Exception"
            THEN /\ pc' = "Exception"
                 /\ result' = delta
            ELSE /\ pc' = "done"
                 /\ result' =
                      [k \in DOMAIN flat_list(NotNone(<<delta>>)) |->
                         Feature(NoProperties,
                                 GeomOf(flat_list(NotNone(<<delta>>))[k]))]
  /\ UNCHANGED <<entry, args, stack, frames, paramVars, stitchVars,
                 clusterVars, geoVars, subtractVars>>

SubtractNext == SubtractMinuend \/ SubtractSubtrahend \/ SubtractDifference

SubtractSpec == SubtractInit /\ [][SubtractNext]_vars

SubtractReturned == entry = "subtract_geojson" /\ pc = "done"

\* The conversions of the features of the two files, as polygon pieces.
ConvertedMinuend ==
  flat_list(NotNone([k \in DOMAIN args.minuend |->
    convert_to_geojson_poly(args.minuend[k], args.width, AREA_LIMIT, TRUE)]))

SubtrahendPieces ==
  flat_list(NotNone([k \in DOMAIN args.subtrahend |->
    convert_to_geojson_poly(args.subtrahend[k], SubtrahendWidth(args.width),
                            AREA_LIMIT, TRUE)]))

\* The pieces of at least the minimum area.
QualifyingPieces ==
  Pick(SubtrahendPieces,
       {k \in DOMAIN SubtrahendPieces :
          area(GeomOf(SubtrahendPieces[k])) >= 2500})

\* The polygons of a and the polygons of b cover the same points.
SamePoints(a, b) ==
  /\ CellsBetween(RectsOf(a), RectsOf(b)) = {}
  /\ CellsBetween(RectsOf(b), RectsOf(a)) = {}

\* The conversion of a subtrahend feature gave several polygons.
SubtrahendPartitioned ==
  \E k \in DOMAIN args.subtrahend :
     convert_to_geojson_poly(args.subtrahend[k], SubtrahendWidth(args.width),
                             AREA_LIMIT, TRUE).type = "list"

(* C25: subtract_geojson completes without error, also when the conversion
   of a subtrahend feature yields several polygons, and returns the
   converted minuend less every subtrahend piece of at least 2500 m2: the
   smaller pieces are ignored, and when no piece qualifies the result is
   the converted minuend. *)
C25_SubtractsQualifyingPieces ==
  entry = "subtract_geojson" =>
    /\ pc # "Exception"
    /\ pc = "done" =>
         SamePoints(result,
                    <<difference(ConvertedMinuend, QualifyingPieces)>>)

\* The part of C25 that the code keeps: when no conversion of a subtrahend
\* feature yields a list, the call returns the converted minuend less the
\* qualifying pieces.
SubtractsWhenNotPartitioned ==
  (entry = "subtract_geojson" /\ ~SubtrahendPartitioned) =>
    /\ pc # "Exception"
    /\ pc = "done" =>
         SamePoints(result,
                    <<difference(ConvertedMinuend, QualifyingPieces)>>)

\* A subtrahend feature was partitioned and the call ended in the
\* AttributeError of line 555.
C25_PartitionedSubtrahendRaises ==
  /\ entry = "subtract_geojson" /\ pc = "Exception"
  /\ SubtrahendPartitioned
  /\ result = Raised("'list' object has no attribute 'get'")

\* A piece was subtracted and a smaller one ignored.
SubtractedAndIgnored ==
  /\ SubtractReturned
  /\ Len(QualifyingPieces) = 1 /\ Len(SubtrahendPieces) = 2
  /\ ~SamePoints(result, ConvertedMinuend)

\* No piece qualified and the converted minuend came back.
NothingSubtracted ==
  /\ SubtractReturned
  /\ Len(SubtrahendPieces) >= 1 /\ Len(QualifyingPieces) = 0
  /\ SamePoints(result, ConvertedMinuend)

----------------------------------------------------------------------------
(* The entry points of stitching and their thresholds *)

\* The ways stitching is started: a call of stitch, and the command lines of
\* util/stitching.py (restitch) and imagery/query.py.
EntryPoints == {"stitch", "util/stitching.py", "imagery/query.py"}

\* The thresholds the caller gives: any of d (max_dist), l (max_lag) and
\* z (max_angle, max_azimuth_delta of stitch), each with the value 45.
GivenThresholds == UNION {[S -> {45}] : S \in SUBSET {"d", "l", "z"}}

\* The frame lists of these runs: up to two sequences.
MainInputs == {ds \in StitchInputs : Len(ds) <= 2}

\* No threshold is bound before the call.
MainInit ==
  /\ entry = "__main__" /\ pc = "parse"
  /\ args \in [program : EntryPoints, given : GivenThresholds]
  /\ \E ds \in MainInputs : frames = InputFrames(ds)
  /\ max_dist = 0 /\ max_lag = 0 /\ max_azimuth_delta = 0
  /\ NoStitchState /\ NoClusterState /\ NoGeoState
  /\ result = <<>> /\ stack = <<>> /\ NoSubtractState

\* The default of an argument that is not given: that of the signature of
\* stitch (stitching.py:157-159), or that of the add_argument line of the
\* option (stitching.py:316-318, query.py:1413-1415).
DefaultOf(program, option) ==
  IF program = "stitch"
    THEN CASE option = "d" -> DEFAULT_STITCH_MAX_DISTANCE
           [] option = "l" -> DEFAULT_STITCH_MAX_LAG
           [] option = "z" -> DEFAULT_STITCH_MAX_ANGLE
    ELSE CASE option = "d" -> DEFAULT_STITCH_MAX_DISTANCE
           [] option = "l" -> DEFAULT_STITCH_MAX_ANGLE
           [] option = "z" -> DEFAULT_STITCH_MAX_LAG

Bound(program, given, option) ==
  IF option \in DOMAIN given THEN given[option]
  ELSE DefaultOf(program, option)

\* The arguments are bound and stitch is entered: the command lines hand
\* args.max_dist, args.max_lag and args.max_angle on in this order
\* (stitching.py:328-330 and 275, query.py:1498-1500 and 840).
MainParse ==
  /\ entry = "__main__" /\ pc = "parse"
  /\ max_dist' = Bound(args.program, args.given, "d")
  /\ max_lag' = Bound(args.program, args.given, "l")
  /\ max_azimuth_delta' = Bound(args.program, args.given, "z")
  /\ entry' = "stitch" /\ pc' = "start"
  /\ UNCHANGED <<args, stack, frames, stitchVars, clusterVars, result,
                 geoVars, subtractVars>>

MainNext == MainParse \/ StitchNext

MainSpec == MainInit /\ [][MainNext]_vars

(* C26: when the caller gives no thresholds, stitching runs with max_dist
   30 m, max_lag 360 s and max_angle 100 degrees, when stitch is called as
   a function and when it is started from either command line without -d,
   -l and -z. *)
C26_DefaultThresholds ==
  (entry = "stitch" /\ DOMAIN args.given = {}) =>
    /\ max_dist = 30
    /\ max_lag = 360
    /\ max_azimuth_delta = 100

\* The part of C26 that the code keeps: the call of stitch as a function.
DefaultThresholdsOfStitch ==
  (entry = "stitch" /\ args.program = "stitch" /\ DOMAIN args.given = {}) =>
    /\ max_dist = 30
    /\ max_lag = 360
    /\ max_azimuth_delta = 100

\* What the command lines run with instead.
SwappedDefaults ==
  (entry = "stitch" /\ args.program # "stitch" /\ DOMAIN args.given = {}) =>
    /\ max_dist = 30
    /\ max_lag = 100
    /\ max_azimuth_delta = 360

\* A command line without options has joined two sequences that run in
\* opposite directions.
CommandLineJoinsOpposite ==
  /\ StitchReturned /\ args.program # "stitch" /\ DOMAIN args.given = {}
  /\ \E p \in DOMAIN all_clusters :
       /\ Len(all_clusters[p]) = 2
       /\ seqs_azi_delta(all_clusters[p][1], all_clusters[p][2]) = 180

----------------------------------------------------------------------------
(* The frames of the paths and the frames of the input *)

\* The places of the result, <<path, position>>, that hold the frame with
\* identity r.
PlacesOf(r) ==
  {pl \in UNION {{<<p, i>> : i \in DOMAIN result[p]} : p \in DOMAIN result} :
     result[pl[1]][pl[2]].ref = r}

(* C27: every frame of the input of stitch is in exactly one returned path
   and once in it, and every frame of every returned path is an input
   frame, whenever stitch returns; the empty frame list gives the empty
   result. *)
C27_FramesPartitioned ==
  StitchReturned =>
    /\ \A r \in DOMAIN frames : Cardinality(PlacesOf(r)) = 1
    /\ \A p \in DOMAIN result : \A i \in DOMAIN result[p] :
         /\ result[p][i].ref \in DOMAIN frames
         /\ result[p][i].sequence = frames[result[p][i].ref].sequence
         /\ result[p][i].idx = frames[result[p][i].ref].idx
         /\ result[p][i].timestamp = frames[result[p][i].ref].timestamp
         /\ result[p][i].lon = frames[result[p][i].ref].lon
    /\ frames = <<>> => result = <<>>

\* C27's case: stitch returned, for five frames, a path of two sequences
\* and a path of a single frame.
C27_Witness ==
  /\ StitchReturned
  /\ Len(frames) = 5
  /\ \E p \in DOMAIN all_clusters : Len(all_clusters[p]) = 2
  /\ \E p \in DOMAIN result : Len(result[p]) = 1

\* The empty frame list.
C27_EmptyWitness == StitchReturned /\ frames = <<>> /\ result = <<>>

----------------------------------------------------------------------------
(* The order in time of the sequences of a cluster *)

(* C28: for any two consecutive sequences A then B of a cluster returned by
   cluster_seqs, the first frame of B is not earlier than the last frame
   of A. *)
C28_JoinedInTimeOrder ==
  ClusterSeqsReturned =>
    \A c \in DOMAIN result : \A k \in 1..(Len(result[c]) - 1) :
       result[c][k + 1][1].timestamp >= Last(result[c][k]).timestamp

\* A sequence was joined behind one that ends almost a day later: the lag
\* of line 136 is the difference modulo one day.
JoinedBehindLaterHead ==
  /\ ClusterSeqsReturned
  /\ \E c \in DOMAIN result : \E k \in 1..(Len(result[c]) - 1) :
       /\ result[c][k + 1][1].timestamp < Last(result[c][k]).timestamp
       /\ seqs_lag(result[c][k], result[c][k + 1]) <= max_lag

\* Whenever the head ends less than a day minus max_lag after the start of
\* the candidate, the order in time is kept.
JoinedInTimeOrderWithinADay ==
  ClusterSeqsReturned =>
    \A c \in DOMAIN result : \A k \in 1..(Len(result[c]) - 1) :
       \/ result[c][k + 1][1].timestamp >= Last(result[c][k]).timestamp
       \/ Last(result[c][k]).timestamp - result[c][k + 1][1].timestamp
            >= SecondsPerDay - max_lag

----------------------------------------------------------------------------
(* The caller's frame records *)

(* C29: stitch does not modify the frame records it is given: no step of
   stitch changes a field of a record the caller holds or adds a field to
   it. *)
C29_FramesUnmodified == [][frames' = frames]_vars

\* stitch has returned and records of the caller carry a heading that they
\* did not carry before the call.
HeadingsWrittenToCaller ==
  /\ StitchReturned
  /\ \E r \in DOMAIN frames : frames[r].heading # NoHeading

\* The part of C29 that the code keeps: the fields other than heading.
OtherFieldsUnmodified ==
  [][/\ DOMAIN frames' = DOMAIN frames
     /\ \A r \in DOMAIN frames :
          [frames'[r] EXCEPT !.heading = NoHeading]
            = [frames[r] EXCEPT !.heading = NoHeading]]_vars

----------------------------------------------------------------------------
(* The width of the buffers of a line that is split at sharp turns *)

\* The sub-lines of the argument of geojson_linestring_to_poly.
SubLines == explode_sharp_angles(KeptCoords, 45)

\* The buffer of a sub-line with the width w: the square around a corner
\* point, the ring around a line.
BufferOf(line, w) ==
  IF Len(line) = 1 THEN point_to_square(line[1], w)
  ELSE Feature(NoProperties, Polygon(<<BufferRing(line, HalfWidth(w))>>))

(* C30: when a LineString is split at sharp turns into several sub-lines,
   every sub-line and every isolated corner point is buffered with the
   width that the caller passed to geojson_linestring_to_poly. *)
C30_SubLinesBufferedWithCallerWidth ==
  (LineReturned /\ Len(SubLines) > 1) =>
    /\ GeomOf(result).type = "MultiPolygon"
    /\ Len(get_coords(result)) = Len(SubLines)
    /\ \A k \in DOMAIN SubLines :
         get_coords(result)[k] = get_coords(BufferOf(SubLines[k], args.width))

\* The part of C30 that the code keeps: the sub-lines of a call with the
\* default width.
SubLinesBufferedWithDefaultWidth ==
  (LineReturned /\ Len(SubLines) > 1 /\ args.width = DEFAULT_WIDTH) =>
    /\ GeomOf(result).type = "MultiPolygon"
    /\ Len(get_coords(result)) = Len(SubLines)
    /\ \A k \in DOMAIN SubLines :
         get_coords(result)[k] = get_coords(BufferOf(SubLines[k], args.width))

\* A line with a sharp turn was buffered for a width of 10 m, and the
\* square of its corner point has sides of the default width.
CornerSquareOfDefaultWidth ==
  /\ LineReturned /\ args.width = 10 /\ Len(SubLines) = 3
  /\ get_coords(result)[2] = get_coords(point_to_square(SubLines[2][1], 25))

====







